---- MODULE Spec2Model ----
(***************************************************************************)
(* A model of etna.datasets.tsdataset.TSDataset: the wide working table    *)
(* df, the raw table raw_df, the exogenous table df_exog and the metadata  *)
(* kept next to them, with make_future, train_test_split and the border    *)
(* resolver _find_all_borders.                                             *)
(*                                                                         *)
(* Timestamps are integers and the frequency is one step.  A table is a    *)
(* record [index, columns, data]: index is the sequence of its timestamps, *)
(* columns the sequence of its (segment, feature) pairs and data[c][t] the *)
(* cell of column c at timestamp t.  An optional value is a sequence of    *)
(* length 0 (None) or 1.                                                   *)
(***************************************************************************)
EXTENDS Integers, Sequences, FiniteSets, TLC

\* ------------------------------------------------------------------ bounds
\* Number of timestamps of the constructed dataset.
MaxLen == 4
\* Largest future_steps given to make_future.
MaxFuture == 2
\* Largest tail_steps given to make_future.
MaxTail == 1
\* Largest test_size given to train_test_split.
MaxTestSize == 2
\* Largest number of transforms given to transform, fit_transform and
\* inverse_transform.
MaxTransforms == 3
\* Largest number of rows of a long table given to to_dataset, and of its
\* timestamps.
MaxRows == 3

\* ------------------------------------------------------------- primitives
NaN == 0 - 1
None == << >>
Some(x) == << x >>
IsNone(o) == Len(o) = 0
Get(o) == o[1]
\* F applied to the value of x, computed once.
With(x, F(_)) == F(x)

Range(s) == {s[i] : i \in DOMAIN s}
SetMax(S) == CHOOSE x \in S : \A y \in S : y <= x
SetMin(S) == CHOOSE x \in S : \A y \in S : x <= y
\* The timestamps lo, lo + 1, ..., hi as a sequence (empty when hi < lo).
DateRange(lo, hi) == [i \in 1..(IF hi < lo THEN 0 ELSE hi - lo + 1) |-> lo + i - 1]

Segments == <<"s1", "s2">>
\* Every feature name of the model, in lexicographic order of the names.
FeatureOrder == <<"c1", "c2", "exo", "feat", "reg", "target", "target_0.5">>
FeatureRank(f) == CHOOSE i \in DOMAIN FeatureOrder : FeatureOrder[i] = f
\* Every segment name of the model, those of the upper hierarchical levels
\* too, in lexicographic order of the names.
SegmentOrder == Segments \o <<"total", "up1", "up2">>
SegmentRank(s) == CHOOSE i \in DOMAIN SegmentOrder : SegmentOrder[i] = s
ColumnLess(a, b) ==
    \/ SegmentRank(a[1]) < SegmentRank(b[1])
    \/ a[1] = b[1] /\ FeatureRank(a[2]) < FeatureRank(b[2])

\* sort_index(axis=1, level=("segment", "feature")): a stable insertion sort.
RECURSIVE InsertColumn(_, _)
InsertColumn(sorted, c) ==
    IF sorted = << >> THEN << c >>
    ELSE IF ColumnLess(c, Head(sorted)) THEN << c >> \o sorted
    ELSE << Head(sorted) >> \o InsertColumn(Tail(sorted), c)
RECURSIVE SortColumns(_)
SortColumns(cols) ==
    IF cols = << >> THEN << >>
    ELSE InsertColumn(SortColumns(SubSeq(cols, 1, Len(cols) - 1)), cols[Len(cols)])

\* ------------------------------------------------------------------ tables
ColumnSet(t) == Range(t.columns)
FeaturesOf(t) == {c[2] : c \in ColumnSet(t)}
SegmentsOf(t) == {c[1] : c \in ColumnSet(t)}
IndexSet(t) == Range(t.index)
Cell(t, c, ts) == IF ts \in DOMAIN t.data[c] THEN t.data[c][ts] ELSE NaN

MkTable(index, columns, Val(_, _)) ==
    [index |-> index, columns |-> columns,
     data |-> [c \in Range(columns) |-> [ts \in Range(index) |-> Val(c, ts)]]]

\* DataFrame.reindex(new_index): the rows of new_index, NaN where t has none.
Reindex(t, new_index) ==
    LET V(c, ts) == Cell(t, c, ts) IN MkTable(new_index, t.columns, V)

\* DataFrame.asfreq(freq): every step from the first to the last timestamp.
AsFreq(t) ==
    IF t.index = << >> THEN t
    ELSE Reindex(t, DateRange(SetMin(IndexSet(t)), SetMax(IndexSet(t))))

\* A slice that leaves out its stop label, as a positional slice would.
SliceRowsHalfOpen(t, start, stop) ==
    LET Keep(ts) == /\ (IsNone(start) \/ Get(start) <= ts)
                    /\ (IsNone(stop) \/ ts < Get(stop))
    IN  Reindex(t, SelectSeq(t.index, Keep))

\* df[start:stop] on a sorted time index: both ends inclusive, None is open.
SliceRows(t, start, stop) ==
    LET Keep(ts) == /\ (IsNone(start) \/ Get(start) <= ts)
                    /\ (IsNone(stop) \/ ts <= Get(stop))
    IN  Reindex(t, SelectSeq(t.index, Keep))

\* df[list of columns]: KeyError when a label is missing.
SelectColumns(t, columns) ==
    IF Range(columns) \subseteq ColumnSet(t)
    THEN [status |-> "ok",
          df |-> [index |-> t.index, columns |-> columns,
                  data |-> [c \in Range(columns) |-> t.data[c]]]]
    ELSE [status |-> "KeyError", df |-> t]

\* df.drop(columns=features, level="feature"): KeyError when a label is not
\* a feature of the table.
DropFeatures(t, features) ==
    IF features \subseteq FeaturesOf(t)
    THEN LET Keep(c) == c[2] \notin features
             cols == SelectSeq(t.columns, Keep)
         IN  [status |-> "ok",
              df |-> [index |-> t.index, columns |-> cols,
                      data |-> [c \in Range(cols) |-> t.data[c]]]]
    ELSE [status |-> "KeyError", df |-> t]

\* pd.concat((a, b), axis=1): the columns of a then those of b over the
\* sorted union of the two indexes.
ConcatColumns(a, b) ==
    LET idx == IndexSet(a) \cup IndexSet(b)
        index == IF idx = {} THEN << >>
                 ELSE LET In(ts) == ts \in idx
                      IN SelectSeq(DateRange(SetMin(idx), SetMax(idx)), In)
        V(c, ts) == IF c \in ColumnSet(a) THEN Cell(a, c, ts) ELSE Cell(b, c, ts)
    IN  MkTable(index, a.columns \o b.columns, V)

SortIndex(t) == [t EXCEPT !.columns = SortColumns(t.columns)]

\* df.tail(n): the last n rows.
TailRows(t, n) ==
    LET len == Len(t.index)
    IN  Reindex(t, SubSeq(t.index, (IF n >= len THEN 1 ELSE len - n + 1), len))

\* Series.first_valid_index / last_valid_index over the columns cols of t:
\* the first / last timestamp with a value in some column, None for NaT.
ValidIndex(t, cols) == {ts \in IndexSet(t) : \E c \in cols : Cell(t, c, ts) # NaN}
first_valid_index(t, cols) ==
    IF ValidIndex(t, cols) = {} THEN None ELSE Some(SetMin(ValidIndex(t, cols)))
last_valid_index(t, cols) ==
    IF ValidIndex(t, cols) = {} THEN None ELSE Some(SetMax(ValidIndex(t, cols)))

\* --------------------------------------------------------------- a dataset
\* The fields of a TSDataset instance that its methods change.  df_exog is
\* optional.
TSDatasetFields(df_, raw_df_, df_exog_, known_future_, regressors_, names_) ==
    [df |-> df_, raw_df |-> raw_df_, df_exog |-> df_exog_,
     known_future |-> known_future_, regressors |-> regressors_,
     target_components_names |-> names_]

\* known_future as the constructor takes it: the literal "all" or names.
KnownFutureAll == [literal |-> "all", names |-> {}]
KnownFutureNames(names) == [literal |-> "", names |-> names]

check_known_future(known_future, df_exog) ==
    LET exog_columns == IF IsNone(df_exog) THEN {} ELSE FeaturesOf(Get(df_exog))
    IN  IF known_future.literal # ""
        THEN IF known_future.literal = "all"
             THEN [status |-> "ok", value |-> exog_columns]
             ELSE [status |-> "ValueError", value |-> {}]
        ELSE IF ~(known_future.names \subseteq exog_columns)
             THEN [status |-> "ValueError", value |-> {}]
             ELSE [status |-> "ok", value |-> known_future.names]

\* A check of the beginnings that never fires.
StartsTooLateNever(target_min, exog_series_min) == FALSE

\* The regressors of a segment begin after its target.
StartsTooLate(target_min, exog_series_min) == target_min < exog_series_min

\* A check of the ends that lets the regressors end with the target.
EndsTooEarlyStrict(target_max, exog_series_max) == target_max > exog_series_max

\* The regressors of a segment do not end after its target.
EndsTooEarly(target_max, exog_series_max) == target_max >= exog_series_max

\* _check_regressors: the error raised and the segment its message names,
\* for the first column of df, in column order, whose segment fails.  The
\* comparisons with NaT (no valid index) are false.
check_regressors(df, df_regressors, regressor_columns) ==
    LET Columns(s) == {c \in regressor_columns : c[1] = s}
        TooLate(s) ==
            LET target_min == first_valid_index(df, {<<s, "target">>})
                exog_series_min == first_valid_index(df_regressors, Columns(s))
            IN  /\ ~IsNone(target_min) /\ ~IsNone(exog_series_min)
                /\ StartsTooLate(Get(target_min), Get(exog_series_min))
        TooShort(s) ==
            LET target_max == last_valid_index(df, {<<s, "target">>})
                exog_series_max == last_valid_index(df_regressors, Columns(s))
            IN  /\ ~IsNone(target_max) /\ ~IsNone(exog_series_max)
                /\ EndsTooEarly(Get(target_max), Get(exog_series_max))
        Failure(s) == IF Columns(s) = {} THEN "KeyError"
                      ELSE IF TooLate(s) \/ TooShort(s) THEN "ValueError"
                      ELSE "ok"
        failing == {i \in DOMAIN df.columns : Failure(df.columns[i][1]) # "ok"}
    IN  IF regressor_columns = {} \/ failing = {}
        THEN [status |-> "ok", segment |-> ""]
        ELSE [status |-> Failure(df.columns[SetMin(failing)][1]),
              segment |-> df.columns[SetMin(failing)][1]]

merge_exog(self, df) ==
    IF IsNone(self.df_exog) THEN [status |-> "ValueError", segment |-> "", df |-> df]
    ELSE With(Get(self.df_exog), LAMBDA exog :
         With(check_regressors(df, exog,
                               {c \in ColumnSet(exog) : c[2] \in self.known_future}),
              LAMBDA checked :
         IF checked.status # "ok"
         THEN [status |-> checked.status, segment |-> checked.segment, df |-> df]
         ELSE [status |-> "ok", segment |-> "",
               df |-> SortIndex(Reindex(ConcatColumns(df, exog), df.index))]))

\* A column label that is not a string; str() of it is the name of the
\* second segment.
OtherLabel == "object(s2)"
\* astype(str) of a segment label.
astype_str(label) == IF label = OtherLabel THEN Segments[2] ELSE label

\* _prepare_df: the segment labels of the columns cast to str.  Of columns
\* with the same pair of labels the table record keeps the cells of the
\* last.
prepare_df(df) ==
    LET Cast(c) == <<astype_str(c[1]), c[2]>>
        columns == [i \in DOMAIN df.columns |-> Cast(df.columns[i])]
        Last(c) == df.columns[SetMax({i \in DOMAIN columns : columns[i] = c})]
    IN  [index |-> df.index, columns |-> columns,
         data |-> [c \in Range(columns) |-> df.data[Last(c)]]]

\* TSDataset.__init__(df, freq, df_exog, known_future): the dataset, or the
\* error it raises and the segment the error names.
TSDataset(df, df_exog, known_future) ==
    With(AsFreq(prepare_df(df)), LAMBDA raw :
    With(check_known_future(known_future, df_exog), LAMBDA checked :
    With(TSDatasetFields(raw, raw, df_exog, checked.value, checked.value, << >>),
         LAMBDA self :
    IF checked.status # "ok"
    THEN [status |-> checked.status, segment |-> "", ts |-> None]
    ELSE With(IF IsNone(df_exog) THEN [status |-> "ok", segment |-> "", df |-> raw]
              ELSE merge_exog(self, raw), LAMBDA merged :
         IF merged.status # "ok"
         THEN [status |-> merged.status, segment |-> merged.segment, ts |-> None]
         ELSE [status |-> "ok", segment |-> "",
               ts |-> Some([self EXCEPT !.df = SortIndex(merged.df)])]))))

\* _check_endings(warning=True): the warning it gives, if any.
check_endings(self) ==
    LET max_index == SetMax(IndexSet(self.df))
    IN  IF \E c \in ColumnSet(self.df) : c[2] = "target" /\ Cell(self.df, c, max_index) = NaN
        THEN {<<"Segments contains NaNs in the last timestamps", "">>} ELSE {}

\* match_target_quantiles: the names of the form target_<number>.<number>.
match_target_quantiles(features) == features \cap {"target_0.5"}
target_quantiles_names(self) == match_target_quantiles(FeaturesOf(self.df))

\* self.segments: the segments of the working table in column order.
RECURSIVE Unique(_)
Unique(s) ==
    IF s = << >> THEN << >>
    ELSE LET rest == Unique(SubSeq(s, 1, Len(s) - 1))
         IN  IF s[Len(s)] \in Range(rest) THEN rest ELSE Append(rest, s[Len(s)])
segments(self) == Unique([i \in DOMAIN self.df.columns |-> self.df.columns[i][1]])

\* sorted(names) as a tuple.
SortedNames(names) == LET In(f) == f \in names IN SelectSeq(FeatureOrder, In)

\* ------------------------------------------------------------- make_future
\* date_range(start=max_date, periods=future_steps + 1, closed="right").
FutureDates(max_date_in_dataset, future_steps) ==
    DateRange(max_date_in_dataset + 1, max_date_in_dataset + future_steps)

\* The warning per segment when df_exog has no row for some future date.
RegressorWarnings(self, future_dates) ==
    IF /\ ~IsNone(self.df_exog)
       /\ self.regressors # {}
       /\ ~(Range(future_dates) \subseteq IndexSet(Get(self.df_exog)))
    THEN {<<"Some regressors don't have enough values", segment>> :
              segment \in Range(segments(self))}
    ELSE {}

\* The components and then the quantiles of self are dropped from df.
DropComponentsAndQuantiles(self, df) ==
    With(IF Len(self.target_components_names) > 0
         THEN DropFeatures(df, Range(self.target_components_names))
         ELSE [status |-> "ok", df |-> df], LAMBDA no_components :
    IF no_components.status # "ok" THEN no_components
    ELSE IF Cardinality(target_quantiles_names(self)) > 0
    THEN DropFeatures(no_components.df, target_quantiles_names(self))
    ELSE no_components)

\* The last rows of the extended table as a dataset of their own, with the
\* metadata of self.
FutureTail(self, df, rows) ==
    With(TSDataset(df, None, KnownFutureNames({})), LAMBDA built :
    IF built.status # "ok" THEN [status |-> built.status, result |-> << >>]
    ELSE With(TSDataset(SortIndex(TailRows(Get(built.ts).df, rows)), None,
                        KnownFutureNames({})), LAMBDA future_ts :
         IF future_ts.status # "ok" THEN [status |-> future_ts.status, result |-> << >>]
         ELSE [status |-> "ok",
               result |-> << [Get(future_ts.ts) EXCEPT
                                 !.known_future = self.known_future,
                                 !.regressors = self.regressors,
                                 !.df_exog = self.df_exog] >>]))

\* make_future(future_steps, transforms=(), tail_steps): the new dataset, or
\* the error raised, with the warnings given on the way.
make_future(self, future_steps, tail_steps) ==
    With(check_endings(self), LAMBDA warned :
    With(FutureDates(SetMax(IndexSet(self.df)), future_steps), LAMBDA future_dates :
    With(Reindex(self.raw_df, self.raw_df.index \o future_dates), LAMBDA extended :
    With(IF ~IsNone(self.df_exog) THEN merge_exog(self, extended)
         ELSE [status |-> "ok", segment |-> "", df |-> extended], LAMBDA merged :
    IF merged.status # "ok"
    THEN [status |-> merged.status, warnings |-> warned, result |-> << >>]
    ELSE With(warned \cup RegressorWarnings(self, future_dates), LAMBDA warnings :
         With(DropComponentsAndQuantiles(self, merged.df), LAMBDA dropped :
         IF dropped.status # "ok"
         THEN [status |-> dropped.status, warnings |-> warnings, result |-> << >>]
         ELSE With(FutureTail(self, dropped.df, future_steps + tail_steps), LAMBDA tail :
              [status |-> tail.status, warnings |-> warnings,
               result |-> tail.result])))))))

\* ------------------------------------------------------- target components
RECURSIVE SumCells(_, _, _)
\* DataFrame.sum over the columns cols at one timestamp: NaN counts as 0.
SumCells(t, cols, ts) ==
    IF cols = {} THEN 0
    ELSE LET c == CHOOSE x \in cols : TRUE
             v == Cell(t, c, ts)
         IN  (IF v = NaN THEN 0 ELSE v) + SumCells(t, cols \ {c}, ts)

\* A comparison of the sums with the target that never fails.
ComponentsSumUpAlways(self, target_components_df) == TRUE
\* np.allclose(components_sum.values, self[..., "target"].values): the same
\* shape, no NaN, equal sums per segment and timestamp.
ComponentsSumUp(self, target_components_df) ==
    LET target_columns == {c \in ColumnSet(self.df) : c[2] = "target"}
        first_valid_idx == first_valid_index(self.df, target_columns)
        target_index == SliceRows(self.df, first_valid_idx, None).index
        components_sum(s, ts) ==
            SumCells(target_components_df,
                     {c \in ColumnSet(target_components_df) : c[1] = s}, ts)
    IN  /\ ~IsNone(first_valid_idx)
        /\ target_index = target_components_df.index
        /\ \A s \in Range(segments(self)) : \A ts \in Range(target_index) :
               /\ Cell(self.df, <<s, "target">>, ts) # NaN
               /\ components_sum(s, ts) = Cell(self.df, <<s, "target">>, ts)

add_target_components(self, target_components_df) ==
    LET Names(s) == {c[2] : c \in {x \in ColumnSet(target_components_df) : x[1] = s}}
        components_names == Names(segments(self)[1])
    IN  IF Len(self.target_components_names) > 0
        THEN [status |-> "ValueError", ts |-> self]
        ELSE IF \E s \in Range(segments(self)) : Names(s) # components_names
        THEN [status |-> "ValueError", ts |-> self]
        ELSE IF ~ComponentsSumUp(self, target_components_df)
        THEN [status |-> "ValueError", ts |-> self]
        ELSE [status |-> "ok",
              ts |-> [self EXCEPT
                        !.target_components_names = SortedNames(components_names),
                        !.df = SortIndex(Reindex(ConcatColumns(self.df, target_components_df),
                                                 self.df.index))]]

\* A drop that clears the names and leaves the columns.
ForgetTargetComponents(self) == [self EXCEPT !.target_components_names = << >>]
drop_target_components(self) ==
    IF Len(self.target_components_names) > 0
    THEN [self EXCEPT
            !.df = DropFeatures(self.df, Range(self.target_components_names)).df,
            !.target_components_names = << >>]
    ELSE self

\* ------------------------------------------------- add_columns_from_pandas
\* A table given whole, its rows after the last timestamp too.
Uncropped(self, df_update) == df_update
\* df_update[: self.df.index.max()]
CropToLast(self, df_update) ==
    SliceRows(df_update, None, Some(SetMax(IndexSet(self.df))))

add_columns_from_pandas(self, df_update, update_exog, regressors) ==
    LET cropped == CropToLast(self, df_update)
    IN  [self EXCEPT
           !.df = SortIndex(ConcatColumns(self.df, cropped)),
           !.df_exog = IF update_exog
                       THEN IF IsNone(self.df_exog) THEN Some(df_update)
                            ELSE Some(SortIndex(ConcatColumns(Get(self.df_exog), df_update)))
                       ELSE self.df_exog,
           !.regressors = IF IsNone(regressors) THEN self.regressors
                          ELSE self.regressors \cup Get(regressors)]

\* ---------------------------------------------- update_columns_from_pandas
\* df.loc[:, idx[segments, columns_to_update]] = the cropped df_update: the
\* columns of the features of df_update take its values at the timestamps
\* of df, NaN where it has none.
update_columns_from_pandas(self, df_update) ==
    LET columns_to_update == FeaturesOf(df_update)
        cropped == CropToLast(self, df_update)
        V(c, ts) == IF c[2] \notin columns_to_update THEN Cell(self.df, c, ts)
                    ELSE IF c \in ColumnSet(cropped) THEN Cell(cropped, c, ts)
                    ELSE NaN
    IN  [self EXCEPT !.df = MkTable(self.df.index, self.df.columns, V)]

\* ----------------------------------------------------------- drop_features
\* if drop_from_exog: dfs.append(("df_exog", self.df_exog))
DropsFromExog(drop_from_exog) == drop_from_exog

\* One pass of the loop over dfs: the features of the table that are among
\* features dropped, a warning for the others.
DropPresent(name, t, features) ==
    LET columns_to_remove == FeaturesOf(t) \cap features
    IN  [warnings |-> IF features \ columns_to_remove # {}
                      THEN {<<"Features are not present", name>>} ELSE {},
         df |-> DropFeatures(t, columns_to_remove).df]

drop_features(self, features, drop_from_exog) ==
    IF features \cap Range(self.target_components_names) # {}
    THEN [status |-> "ValueError", warnings |-> {}, ts |-> self]
    ELSE With(DropPresent("df", self.df, features), LAMBDA first :
         IF ~DropsFromExog(drop_from_exog)
         THEN [status |-> "ok", warnings |-> first.warnings,
               ts |-> [self EXCEPT !.df = first.df,
                                   !.regressors = self.regressors \ features]]
         ELSE IF IsNone(self.df_exog)
         \* None has no columns: the loop ends after df was changed
         THEN [status |-> "AttributeError", warnings |-> first.warnings,
               ts |-> [self EXCEPT !.df = first.df]]
         ELSE With(DropPresent("df_exog", Get(self.df_exog), features), LAMBDA second :
              [status |-> "ok", warnings |-> first.warnings \cup second.warnings,
               ts |-> [self EXCEPT !.df = first.df, !.df_exog = Some(second.df),
                                   !.regressors = self.regressors \ features]]))

\* -------------------------------------------------------- _find_all_borders
\* index.get_loc(key): the 0-based position of key, None for a KeyError.
get_loc(index, key) ==
    IF \E i \in DOMAIN index : index[i] = key
    THEN Some((CHOOSE i \in DOMAIN index : index[i] = key) - 1)
    ELSE None
\* index[i] with a 0-based position: a negative position counts from the
\* end, None for an IndexError.
item(index, i) ==
    IF 0 <= i /\ i < Len(index) THEN Some(index[i + 1])
    ELSE IF i < 0 /\ 0 - Len(index) <= i THEN Some(index[Len(index) + i + 1])
    ELSE None

BordersError(error) ==
    [status |-> error, test_start |-> None, test_end_defined |-> 0,
     train_end_defined |-> 0, test_start_defined |-> 0]

\* test_size is checked against what is left after test_start.
TestSizeTooLarge(test_start_idx, test_size, len) == test_start_idx + test_size > len

\* The default of test_end; test_start is set when it comes from train_end
\* and test_size.
find_test_end(index, train_end, test_start, test_end, test_size) ==
    IF IsNone(test_end)
    THEN IF ~IsNone(test_start) /\ ~IsNone(test_size)
         THEN LET test_start_idx == get_loc(index, Get(test_start))
              IN  IF IsNone(test_start_idx) THEN BordersError("KeyError")
                  ELSE IF TestSizeTooLarge(Get(test_start_idx), Get(test_size), Len(index))
                  THEN BordersError("ValueError")
                  ELSE LET found == item(index, Get(test_start_idx) + Get(test_size))
                       IN  IF IsNone(found) THEN BordersError("IndexError")
                           ELSE [BordersError("ok") EXCEPT
                                   !.test_start = test_start,
                                   !.test_end_defined = Get(found)]
         ELSE IF ~IsNone(test_size) /\ ~IsNone(train_end)
         THEN LET test_start_idx == get_loc(index, Get(train_end))
              IN  IF IsNone(test_start_idx) THEN BordersError("KeyError")
                  ELSE LET start == item(index, Get(test_start_idx) + 1)
                           found == item(index, Get(test_start_idx) + Get(test_size))
                       IN  IF IsNone(start) \/ IsNone(found) THEN BordersError("IndexError")
                           ELSE [BordersError("ok") EXCEPT
                                   !.test_start = start,
                                   !.test_end_defined = Get(found)]
         ELSE [BordersError("ok") EXCEPT
                 !.test_start = test_start,
                 !.test_end_defined = SetMax(Range(index))]
    ELSE [BordersError("ok") EXCEPT
            !.test_start = test_start,
            !.test_end_defined = Get(test_end)]

\* A test set that starts one position early.
TestStartOffsetEarly(test_size) == 0 - test_size

\* The test set of test_size timestamps ends at test_end: where it starts,
\* counted from the position of test_end.
TestStartOffset(test_size) == 1 - test_size

\* The timestamp step positions after (before) the position of key.
Neighbour(index, key, step) ==
    LET idx == get_loc(index, key)
    IN  IF IsNone(idx) THEN [status |-> "KeyError", value |-> 0]
        ELSE LET found == item(index, Get(idx) + step)
             IN  IF IsNone(found) THEN [status |-> "IndexError", value |-> 0]
                 ELSE [status |-> "ok", value |-> Get(found)]

\* train_end and test_start, from each other or from test_size.
find_train_end_test_start(index, train_end, test_start, test_end_defined, test_size) ==
    IF IsNone(test_size)
    THEN LET before == IF IsNone(train_end) THEN Neighbour(index, Get(test_start), 0 - 1)
                       ELSE [status |-> "ok", value |-> Get(train_end)]
             after == IF IsNone(test_start) THEN Neighbour(index, Get(train_end), 1)
                      ELSE [status |-> "ok", value |-> Get(test_start)]
         IN  IF before.status # "ok" THEN BordersError(before.status)
             ELSE IF after.status # "ok" THEN BordersError(after.status)
             ELSE [BordersError("ok") EXCEPT
                     !.train_end_defined = before.value,
                     !.test_start_defined = after.value]
    ELSE LET after == IF IsNone(test_start)
                      THEN Neighbour(index, test_end_defined, TestStartOffset(Get(test_size)))
                      ELSE [status |-> "ok", value |-> Get(test_start)]
             before == IF IsNone(train_end) THEN Neighbour(index, after.value, 0 - 1)
                       ELSE [status |-> "ok", value |-> Get(train_end)]
         IN  IF after.status # "ok" THEN BordersError(after.status)
             ELSE IF before.status # "ok" THEN BordersError(before.status)
             ELSE [BordersError("ok") EXCEPT
                     !.train_end_defined = before.value,
                     !.test_start_defined = after.value]

\* A final check that lets a test start one step before the train end.
TestBeforeTrainEndLoose(test_start_defined, train_end_defined) ==
    test_start_defined + 1 < train_end_defined

\* A final check that never fires.
TestBeforeTrainEndNever(test_start_defined, train_end_defined) == FALSE

\* The final check of the resolver.
TestBeforeTrainEnd(test_start_defined, train_end_defined) ==
    test_start_defined < train_end_defined

\* _find_all_borders: the four borders, or the error raised.
find_all_borders(self, train_start, train_end, test_start, test_end, test_size) ==
    With(self.df.index, LAMBDA index :
    With(IF ~IsNone(test_end) /\ ~IsNone(test_start) /\ ~IsNone(test_size)
         THEN {<<"test_size will be ignored", "">>} ELSE {}, LAMBDA warned :
    With(find_test_end(index, train_end, test_start, test_end, test_size), LAMBDA first :
    With(IF IsNone(train_start) THEN SetMin(Range(index)) ELSE Get(train_start),
         LAMBDA train_start_defined :
    IF first.status # "ok"
    THEN [status |-> first.status, warnings |-> warned, borders |-> << >>]
    ELSE IF IsNone(train_end) /\ IsNone(first.test_start) /\ IsNone(test_size)
    THEN [status |-> "ValueError", warnings |-> warned, borders |-> << >>]
    ELSE With(find_train_end_test_start(index, train_end, first.test_start,
                                        first.test_end_defined, test_size),
              LAMBDA second :
         IF second.status # "ok"
         THEN [status |-> second.status, warnings |-> warned, borders |-> << >>]
         ELSE IF TestBeforeTrainEnd(second.test_start_defined, second.train_end_defined)
         THEN [status |-> "ValueError", warnings |-> warned, borders |-> << >>]
         ELSE [status |-> "ok", warnings |-> warned,
               borders |-> <<train_start_defined, second.train_end_defined,
                             second.test_start_defined, first.test_end_defined>>])))))

\* --------------------------------------------------------- train_test_split
\* One of the two datasets of train_test_split: the working table cut to
\* [start, end] and to the raw table's columns, the raw table cut to
\* [raw_start, end].
SplitPart(self, start, end, raw_start) ==
    With(SelectColumns(SliceRows(self.df, Some(start), Some(end)), self.raw_df.columns),
         LAMBDA part_df :
    IF part_df.status # "ok" THEN [status |-> part_df.status, ts |-> None]
    ELSE With(TSDataset(part_df.df, self.df_exog, KnownFutureNames(self.known_future)),
              LAMBDA part :
         IF part.status # "ok" THEN part
         ELSE [status |-> "ok",
               ts |-> Some([Get(part.ts) EXCEPT
                              !.raw_df = SliceRows(self.raw_df, Some(raw_start), Some(end)),
                              !.regressors = self.regressors,
                              !.target_components_names = self.target_components_names])]))

\* A split that never warns about its borders.
BorderWarningsSilent(self, train_start_defined, test_end_defined) == {}

\* The warnings of train_test_split about borders outside the index.
BorderWarnings(self, train_start_defined, test_end_defined) ==
    (IF test_end_defined > SetMax(IndexSet(self.df))
     THEN {<<"Max timestamp in df", "">>} ELSE {})
    \cup (IF train_start_defined < SetMin(IndexSet(self.df))
          THEN {<<"Min timestamp in df", "">>} ELSE {})

train_test_split(self, train_start, train_end, test_start, test_end, test_size) ==
    With(find_all_borders(self, train_start, train_end, test_start, test_end, test_size),
         LAMBDA found :
    IF found.status # "ok"
    THEN [status |-> found.status, warnings |-> found.warnings,
          borders |-> found.borders, result |-> << >>]
    ELSE With(found.warnings \cup BorderWarnings(self, found.borders[1], found.borders[4]),
              LAMBDA warned :
         With(SplitPart(self, found.borders[1], found.borders[2], found.borders[1]),
              LAMBDA train :
         IF train.status # "ok"
         THEN [status |-> train.status, warnings |-> warned,
               borders |-> found.borders, result |-> << >>]
         ELSE With(SplitPart(self, found.borders[3], found.borders[4], found.borders[1]),
                   LAMBDA test :
              IF test.status # "ok"
              THEN [status |-> test.status, warnings |-> warned,
                    borders |-> found.borders, result |-> << >>]
              ELSE [status |-> "ok", warnings |-> warned, borders |-> found.borders,
                    result |-> <<Get(train.ts), Get(test.ts)>>]))))

\* ------------------------------------------------------------------- state
\* The fields of the dataset under study (self), and ret: the method the
\* caller has just called on it with its arguments, the error it raised or
\* "ok", the warnings it gave and the datasets it returned.  The caller
\* looks at ret and drops it (Proceed) before the next call.
VARIABLES df, raw_df, df_exog, known_future, regressors, target_components_names,
          hierarchical_structure, current_df_level, ret

vars == <<df, raw_df, df_exog, known_future, regressors, target_components_names,
          hierarchical_structure, current_df_level, ret>>
fields == <<df, raw_df, df_exog, known_future, regressors, target_components_names,
            hierarchical_structure, current_df_level>>

Self == TSDatasetFields(df, raw_df, df_exog, known_future, regressors,
                        target_components_names)

Becomes(new) ==
    \E ts \in {new} :
    /\ df' = ts.df
    /\ raw_df' = ts.raw_df
    /\ df_exog' = ts.df_exog
    /\ known_future' = ts.known_future
    /\ regressors' = ts.regressors
    /\ target_components_names' = ts.target_components_names
    /\ UNCHANGED <<hierarchical_structure, current_df_level>>

Returned(op, args, out, borders) ==
    [op |-> op, args |-> args, status |-> out.status, warnings |-> out.warnings,
     borders |-> borders, result |-> out.result]
Plain(status) == [status |-> status, warnings |-> {}, result |-> << >>]
Idle == Returned("", << >>, Plain("ok"), << >>)

\* ------------------------------------------------------------------ inputs
\* The value of a cell of an input table: distinct per column and timestamp.
CellVal(c, ts) == FeatureRank(c[2]) * 100 + SegmentRank(c[1]) * 20 + ts + 5

\* The first timestamp of the tables given to the constructor.
FirstDate == 1
\* The wide table given to the constructor: len timestamps from FirstDate,
\* one without a row when shape is "gap"; of the target of the second
\* segment the last value is missing when shape is "ragged", the first when
\* it is "late", all when it is "void"; a quantile column on request.
InputDf(len, shape, with_quantile) ==
    LET dates == DateRange(FirstDate, FirstDate + len - 1)
        Given(ts) == shape # "gap" \/ ts # FirstDate + 1
        Wanted(f) == f = "target" \/ (with_quantile /\ f = "target_0.5")
        columns == [i \in 1..(2 * Len(Segments)) |->
                       <<Segments[(i + 1) \div 2],
                         IF i % 2 = 1 THEN "target" ELSE "target_0.5">>]
        Keep(c) == Wanted(c[2])
        Missing(ts) == \/ shape = "ragged" /\ ts = FirstDate + len - 1
                       \/ shape = "late" /\ ts = FirstDate
                       \/ shape = "void"
        V(c, ts) == IF c = <<Segments[2], "target">> /\ Missing(ts)
                    THEN NaN ELSE CellVal(c, ts)
    IN  MkTable(SelectSeq(dates, Given), SelectSeq(columns, Keep), V)

\* The exogenous table given to the constructor: features exo and reg from
\* one step before FirstDate to last; when short, the second segment has no
\* values at last.
InputExog(last, short) ==
    LET columns == [i \in 1..(2 * Len(Segments)) |->
                       <<Segments[(i + 1) \div 2], IF i % 2 = 1 THEN "exo" ELSE "reg">>]
        V(c, ts) == IF short /\ c[1] = Segments[2] /\ ts = last THEN NaN ELSE CellVal(c, ts)
    IN  MkTable(DateRange(FirstDate - 1, last), columns, V)

\* The exogenous table given to the constructor, from one step before
\* FirstDate to one step after last: exo has a value at every timestamp,
\* reg of segment s at the timestamps window[s][1] .. window[s][2].
InputRegressors(last, window) ==
    LET columns == [i \in 1..(2 * Len(Segments)) |->
                       <<Segments[(i + 1) \div 2], IF i % 2 = 1 THEN "exo" ELSE "reg">>]
        V(c, ts) == IF c[2] = "reg" /\ ~(window[c[1]][1] <= ts /\ ts <= window[c[1]][2])
                    THEN NaN ELSE CellVal(c, ts)
    IN  MkTable(DateRange(FirstDate - 1, last + 1), columns, V)

\* A wide table given to the constructor with one more target column for
\* the second segment: under the same labels, or under a label that is not
\* a string.
InputDuplicated(len, label) ==
    LET columns == [i \in 1..Len(Segments) |-> <<Segments[i], "target">>]
                   \o << <<label, "target">> >>
        V(c, ts) == CellVal(<<astype_str(c[1]), c[2]>>, ts)
    IN  MkTable(DateRange(FirstDate, FirstDate + len - 1), columns, V)

\* The table given to add_target_components: c1 and c2 per segment over the
\* working table's index.
InputComponents(self, kind) ==
    LET all == [i \in 1..(2 * Len(Segments)) |->
                   <<Segments[(i + 1) \div 2], IF i % 2 = 1 THEN "c1" ELSE "c2">>]
        Keep(c) == kind # "uneven" \/ c # <<Segments[2], "c2">>
        V(c, ts) ==
            LET target == Cell(self.df, <<c[1], "target">>, ts)
            IN  IF c[2] = "c1" THEN 1
                ELSE IF target = NaN THEN NaN
                ELSE IF kind = "badsum" THEN target ELSE target - 1
    IN  MkTable(self.df.index, SelectSeq(all, Keep), V)

\* The table given to add_columns_from_pandas: one new feature per segment,
\* with a value one step after the working table's last timestamp.
InputUpdate(self, feature) ==
    LET columns == [i \in 1..Len(Segments) |-> <<Segments[i], feature>>]
    IN  MkTable(DateRange(SetMin(IndexSet(self.df)), SetMax(IndexSet(self.df)) + 1),
                columns, CellVal)

\* -------------------------------------------------------------- transforms
\* The transform objects handed to the dataset: "halve" divides the target
\* by two and its inverse doubles it, "flag" adds the feature feat and its
\* inverse changes nothing, "broken" changes nothing and its inverse raises.
Transforms == {"halve", "flag", "broken"}

\* The target of every segment doubled (up) or halved.
ScaleTarget(self, up) ==
    LET V(c, ts) ==
            LET v == Cell(self.df, c, ts)
            IN  IF c[2] # "target" \/ v = NaN THEN v
                ELSE IF up THEN 2 * v ELSE v \div 2
    IN  [self EXCEPT !.df = MkTable(self.df.index, self.df.columns, V)]

\* transform.<method>(self): the dataset as the transform leaves it.
Invoke(method, transform, self) ==
    IF method = "inverse_transform"
    THEN IF transform = "broken" THEN [status |-> "RuntimeError", ts |-> self]
         ELSE IF transform = "halve" THEN [status |-> "ok", ts |-> ScaleTarget(self, TRUE)]
         ELSE [status |-> "ok", ts |-> self]
    ELSE IF transform = "halve" THEN [status |-> "ok", ts |-> ScaleTarget(self, FALSE)]
    ELSE IF transform = "flag" /\ "feat" \notin FeaturesOf(self.df)
    THEN [status |-> "ok",
          ts |-> add_columns_from_pandas(self, InputUpdate(self, "feat"), FALSE, None)]
    ELSE [status |-> "ok", ts |-> self]

\* for transform in transforms: transform.<method>(self), up to the first
\* one that raises; log holds every invocation with the dataset it was given.
RECURSIVE ApplyInOrder(_, _, _, _)
ApplyInOrder(method, transforms, self, log) ==
    IF transforms = << >> THEN [status |-> "ok", ts |-> self, log |-> log]
    ELSE LET step == Invoke(method, Head(transforms), self)
             seen == Append(log, [method |-> method, transform |-> Head(transforms),
                                  self |-> self])
         IN  IF step.status # "ok"
             THEN [status |-> step.status, ts |-> step.ts, log |-> seen]
             ELSE ApplyInOrder(method, Tail(transforms), step.ts, seen)

transform(self, transforms) ==
    LET run == ApplyInOrder("transform", transforms, self, << >>)
    IN  [status |-> run.status, warnings |-> check_endings(self), ts |-> run.ts,
         log |-> run.log]

fit_transform(self, transforms) ==
    LET run == ApplyInOrder("fit_transform", transforms, self, << >>)
    IN  [status |-> run.status, warnings |-> check_endings(self), ts |-> run.ts,
         log |-> run.log]

\* to_pandas(features=features): the columns of the features, all segments.
to_pandas(self, features) ==
    LET Keep(c) == c[2] \in features
        cols == SelectSeq(self.df.columns, Keep)
    IN  [index |-> self.df.index, columns |-> cols,
         data |-> [c \in Range(cols) |-> self.df.data[c]]]

get_target_components(self) ==
    IF Len(self.target_components_names) = 0 THEN None
    ELSE Some(to_pandas(self, Range(self.target_components_names)))

\* etna.datasets.utils.inverse_transform_target_components: every component
\* times inverse-transformed target over target.
inverse_transform_target_components(target_components_df, target_df, inverse_transformed_target_df) ==
    LET V(c, ts) ==
            LET comp == Cell(target_components_df, c, ts)
                old == Cell(target_df, <<c[1], "target">>, ts)
                new == Cell(inverse_transformed_target_df, <<c[1], "target">>, ts)
            IN  IF comp = NaN \/ old = NaN \/ new = NaN \/ old = 0 THEN NaN
                ELSE (comp * new) \div old
    IN  MkTable(target_components_df.index, target_components_df.columns, V)

inverse_transform_target_components_(self, target_components_df, target_df) ==
    add_target_components(
        drop_target_components(self),
        inverse_transform_target_components(target_components_df, target_df,
                                            to_pandas(self, {"target"})))

\* The order in which the inverses are not reversed.
Unreversed(transforms) == transforms
\* reversed(transforms)
reversed(transforms) == [i \in DOMAIN transforms |-> transforms[Len(transforms) + 1 - i]]

\* The components are not taken off before the inverses.
KeepsTargetComponents(self) == self
\* The dataset the inverses are given: without its target components.
WithoutTargetComponents(self) == drop_target_components(self)

\* A restoration that an error of the inverses would skip.
RestoresAfterSuccess(target_components_present, status) ==
    target_components_present /\ status = "ok"
\* finally: the restoration runs however the inverses ended.
RestoresAfter(target_components_present, status) == target_components_present

inverse_transform(self, transforms) ==
    LET target_components_present == Len(self.target_components_names) > 0
        target_df == to_pandas(self, {"target"})
        target_components_df == get_target_components(self)
        dropped == IF target_components_present THEN WithoutTargetComponents(self) ELSE self
        run == ApplyInOrder("inverse_transform", reversed(transforms), dropped, << >>)
        restores == RestoresAfter(target_components_present, run.status)
        restored == IF restores
                    THEN inverse_transform_target_components_(
                             run.ts, Get(target_components_df), target_df)
                    ELSE [status |-> "ok", ts |-> run.ts]
        restoration == [method |-> "_inverse_transform_target_components",
                        transform |-> "", self |-> run.ts]
    IN  [status |-> IF restored.status # "ok" THEN restored.status ELSE run.status,
         warnings |-> {}, ts |-> restored.ts,
         log |-> IF restores THEN Append(run.log, restoration) ELSE run.log]

\* ---------------------------------------------------- hierarchical levels
\* The hierarchical structure given to the constructor: total is made of
\* up1 and up2, up1 of the first segment, up2 of the second.
Hierarchy ==
    [level_names |-> <<"total", "region", "market">>,
     level_structure |-> [total |-> <<"up1", "up2">>, up1 |-> << Segments[1] >>,
                          up2 |-> << Segments[2] >>]]

\* The segments a segment is made of, none at the lowest level.
ChildrenOf(h, segment) ==
    IF segment \in DOMAIN h.level_structure THEN h.level_structure[segment] ELSE << >>

RECURSIVE ChildrenOfAll(_, _)
ChildrenOfAll(h, segments_) ==
    IF segments_ = << >> THEN << >>
    ELSE ChildrenOf(h, Head(segments_)) \o ChildrenOfAll(h, Tail(segments_))

get_level_depth(h, level_name) ==
    CHOOSE d \in 0..(Len(h.level_names) - 1) : h.level_names[d + 1] = level_name

RECURSIVE SegmentsAtDepth(_, _)
SegmentsAtDepth(h, depth) ==
    IF depth = 0
    THEN << CHOOSE n \in DOMAIN h.level_structure :
                \A m \in DOMAIN h.level_structure : n \notin Range(h.level_structure[m]) >>
    ELSE ChildrenOfAll(h, SegmentsAtDepth(h, depth - 1))

get_level_segments(h, level_name) == SegmentsAtDepth(h, get_level_depth(h, level_name))

get_segment_level(h, segment) ==
    h.level_names[CHOOSE i \in DOMAIN h.level_names :
                      segment \in Range(get_level_segments(h, h.level_names[i]))]

\* A matrix that adds every segment of the source level to every segment of
\* the target level.
SumOfEverySegment(h, target_level, source_level) ==
    [t \in Range(get_level_segments(h, target_level)) |->
        [s \in Range(get_level_segments(h, source_level)) |-> 1]]

\* get_summing_matrix: the product of the matrices of the levels from the
\* target level down to the source level; the entry of a target segment and
\* a source segment is 1 when the source segment is part of it.
RECURSIVE SummingMatrix(_, _, _)
SummingMatrix(h, target_depth, source_depth) ==
    LET upper == SegmentsAtDepth(h, target_depth)
        source == SegmentsAtDepth(h, source_depth)
    IN  IF target_depth = source_depth
        THEN [t \in Range(upper) |-> [s \in Range(source) |-> IF s = t THEN 1 ELSE 0]]
        ELSE LET lower == SummingMatrix(h, target_depth + 1, source_depth)
             IN  [t \in Range(upper) |->
                    [s \in Range(source) |->
                        IF \E m \in Range(ChildrenOf(h, t)) : lower[m][s] = 1
                        THEN 1 ELSE 0]]

get_summing_matrix(h, target_level, source_level) ==
    SummingMatrix(h, get_level_depth(h, target_level), get_level_depth(h, source_level))

\* etna.datasets.utils.get_level_dataframe: for every segment of the target
\* level and every feature the sum of the columns of the source segments
\* the matrix maps to it, NaN where one of them is NaN.
get_level_dataframe(df_, mapping_matrix, source_level_segments, target_level_segments) ==
    LET column_names == SortedNames(FeaturesOf(df_))
        n == Len(column_names)
        columns == [i \in 1..(Len(target_level_segments) * n) |->
                       <<target_level_segments[((i - 1) \div n) + 1],
                         column_names[((i - 1) % n) + 1]>>]
        Mapped(t, f) == {<<s, f>> : s \in {x \in Range(source_level_segments) :
                                               mapping_matrix[t][x] = 1}}
        V(c, ts) == IF \E x \in Mapped(c[1], c[2]) : Cell(df_, x, ts) = NaN THEN NaN
                    ELSE SumCells(df_, Mapped(c[1], c[2]), ts)
    IN  IF SegmentsOf(df_) # Range(source_level_segments)
        THEN [status |-> "ValueError", df |-> df_]
        ELSE [status |-> "ok", df |-> MkTable(df_.index, columns, V)]

\* _get_dataframe_level: the level the segments of df are the whole of.
get_dataframe_level(h, df_) ==
    IF IsNone(h) THEN [status |-> "ok", level |-> None]
    ELSE LET df_segments == SegmentsOf(df_)
             segment_levels == {get_segment_level(Get(h), s) : s \in df_segments}
         IN  IF Cardinality(segment_levels) # 1
             THEN [status |-> "ValueError", level |-> None]
             ELSE With(CHOOSE l \in segment_levels : TRUE, LAMBDA df_level :
                  IF Cardinality(df_segments) # Len(get_level_segments(Get(h), df_level))
                  THEN [status |-> "ValueError", level |-> None]
                  ELSE [status |-> "ok", level |-> Some(df_level)])

\* TSDataset.__init__(df, freq, df_exog, known_future, hierarchical_structure):
\* the dataset and its level, or the error raised.  df_exog is merged when
\* it is at the level of df.
TSDatasetOfLevel(df_, df_exog_, known_future_, h) ==
    With(AsFreq(prepare_df(df_)), LAMBDA raw :
    With(check_known_future(known_future_, df_exog_), LAMBDA checked :
    With(TSDatasetFields(raw, raw, df_exog_, checked.value, checked.value, << >>),
         LAMBDA self :
    With(get_dataframe_level(h, raw), LAMBDA df_level :
    With(IF IsNone(df_exog_) THEN [status |-> "ok", level |-> None]
         ELSE get_dataframe_level(h, Get(df_exog_)), LAMBDA exog_level :
    IF checked.status # "ok" \/ df_level.status # "ok" \/ exog_level.status # "ok"
    THEN [status |-> "ValueError", ts |-> None, current_df_level |-> None]
    ELSE With(IF IsNone(df_exog_) \/ df_level.level # exog_level.level
              THEN [status |-> "ok", df |-> raw]
              ELSE merge_exog(self, raw), LAMBDA merged :
         IF merged.status # "ok"
         THEN [status |-> merged.status, ts |-> None, current_df_level |-> None]
         ELSE [status |-> "ok", ts |-> Some([self EXCEPT !.df = SortIndex(merged.df)]),
               current_df_level |-> df_level.level]))))))

\* Of the features only the target.
JustTarget(self) == {"target"}
\* Of the features the target and its quantiles.
WithoutComponents(self) == target_quantiles_names(self) \cup {"target"}
\* target_names: the quantiles of the target, its components, the target.
target_names(self) ==
    target_quantiles_names(self) \cup Range(self.target_components_names) \cup {"target"}

\* get_level_dataset(target_level) of a dataset with the hierarchical
\* structure h at the level current_level: the dataset at the target level
\* and that level, or the error raised.
get_level_dataset(self, h, current_level, target_level) ==
    LET Failed(status) == [status |-> status, ts |-> None, current_df_level |-> None]
    IN  IF IsNone(h) \/ IsNone(current_level) THEN Failed("ValueError")
        ELSE With(get_level_depth(Get(h), Get(current_level)), LAMBDA current_level_index :
             With(get_level_depth(Get(h), target_level), LAMBDA target_level_index :
             IF target_level_index > current_level_index THEN Failed("ValueError")
             ELSE With(IF target_level_index < current_level_index
                       THEN get_level_dataframe(
                                to_pandas(self, target_names(self)),
                                get_summing_matrix(Get(h), target_level, Get(current_level)),
                                get_level_segments(Get(h), Get(current_level)),
                                get_level_segments(Get(h), target_level))
                       ELSE [status |-> "ok", df |-> to_pandas(self, target_names(self))],
                       LAMBDA level :
                  IF level.status # "ok" THEN Failed(level.status)
                  ELSE With([self EXCEPT !.df = level.df], LAMBDA at_level :
                       With(to_pandas(at_level, Range(self.target_components_names)),
                            LAMBDA target_components_df :
                       With(TSDatasetOfLevel(
                                to_pandas(at_level,
                                          FeaturesOf(level.df)
                                              \ Range(self.target_components_names)),
                                self.df_exog, KnownFutureNames(self.known_future), h),
                            LAMBDA made :
                       IF made.status # "ok" THEN Failed(made.status)
                       ELSE IF Len(self.target_components_names) = 0 THEN made
                       ELSE With(add_target_components(Get(made.ts), target_components_df),
                                 LAMBDA added :
                            IF added.status # "ok" THEN Failed(added.status)
                            ELSE [made EXCEPT !.ts = Some(added.ts)])))))))

\* ------------------------------------------------- to_dataset, to_flatten
\* A long table: the names of its feature columns in their order, and its
\* rows, each a timestamp, a segment label and a value per feature.
RECURSIVE SortedDates(_)
\* The timestamps of the set dates in ascending order.
SortedDates(dates) ==
    IF dates = {} THEN << >>
    ELSE << SetMin(dates) >> \o SortedDates(dates \ {SetMin(dates)})

\* to_dataset: the segment labels cast to str, the rows pivoted to one row
\* per timestamp and one column per (segment, feature), the columns sorted;
\* pivot raises when a (timestamp, segment) pair has two rows.
to_dataset(long_df) ==
    LET Label(r) == astype_str(r.segment)
        rows == long_df.rows
        labels == {Label(rows[i]) : i \in DOMAIN rows}
        dates == {rows[i].timestamp : i \in DOMAIN rows}
        pairs == [i \in 1..(Len(Segments) * Len(long_df.columns)) |->
                     <<Segments[((i - 1) \div Len(long_df.columns)) + 1],
                       long_df.columns[((i - 1) % Len(long_df.columns)) + 1]>>]
        Pivoted(c) == c[1] \in labels
        RowsOf(s, ts) == {i \in DOMAIN rows : Label(rows[i]) = s /\ rows[i].timestamp = ts}
        V(c, ts) == IF RowsOf(c[1], ts) = {} THEN NaN
                    ELSE rows[CHOOSE i \in RowsOf(c[1], ts) : TRUE].cells[c[2]]
    IN  IF \E i \in DOMAIN rows : \E j \in DOMAIN rows :
               i # j /\ Label(rows[i]) = Label(rows[j])
                     /\ rows[i].timestamp = rows[j].timestamp
        THEN [status |-> "ValueError", df |-> << >>]
        ELSE [status |-> "ok",
              df |-> Some(SortIndex(MkTable(SortedDates(dates),
                                            SelectSeq(pairs, Pivoted), V)))]

\* A flat table that takes the segments in turn row by row.
RowSegmentTiled(segments_, index, i) == segments_[((i - 1) % Len(segments_)) + 1]
\* np.repeat(segments, len(df.index)): the segment of the i-th flat row.
RowSegment(segments_, index, i) == segments_[((i - 1) \div Len(index)) + 1]

\* to_flatten(df, features="all"): for every segment in column order the
\* rows of all timestamps; the column target first, then the others in the
\* order of the table's columns.
to_flatten(wide) ==
    LET segments_ == Unique([i \in DOMAIN wide.columns |-> wide.columns[i][1]])
        features == Unique([i \in DOMAIN wide.columns |-> wide.columns[i][2]])
        IsTarget(f) == f = "target"
        Other(f) == f # "target"
        \* df_cur.values.T.ravel(): the columns of the feature one after another
        Stacked(f, i) ==
            Cell(wide, <<segments_[((i - 1) \div Len(wide.index)) + 1], f>>,
                 wide.index[((i - 1) % Len(wide.index)) + 1])
    IN  [columns |-> SelectSeq(features, IsTarget) \o SelectSeq(features, Other),
         rows |-> [i \in 1..(Len(segments_) * Len(wide.index)) |->
                     [timestamp |-> wide.index[((i - 1) % Len(wide.index)) + 1],
                      segment |-> RowSegment(segments_, wide.index, i),
                      cells |-> [f \in Range(features) |-> Stacked(f, i)]]]]

\* ----------------------------------------------------------------- actions
\* The state after a successful TSDataset(input, freq, exog, future).
Constructed(input, exog, future) ==
    \E made \in {TSDataset(input, exog, future)} :
        /\ made.status = "ok"
        /\ df = Get(made.ts).df
        /\ raw_df = Get(made.ts).raw_df
        /\ df_exog = Get(made.ts).df_exog
        /\ known_future = Get(made.ts).known_future
        /\ regressors = Get(made.ts).regressors
        /\ target_components_names = Get(made.ts).target_components_names
        /\ hierarchical_structure = None
        /\ current_df_level = None
        /\ ret = Idle

ExogChoices(len) ==
    {None} \cup {Some(InputExog(FirstDate + len - 1 + ahead, short)) :
                    ahead \in 1..MaxFuture, short \in BOOLEAN}
KnownFutureChoices == {KnownFutureAll, KnownFutureNames({}), KnownFutureNames({"reg"})}

\* The windows of a regressor around the timestamps FirstDate .. last, and
\* one that holds no timestamp.
WindowChoices(last) ==
    {<<first, end>> : first \in (FirstDate - 1)..(FirstDate + 1),
                      end \in (last - 1)..(last + 1)}
    \cup {<<FirstDate + 1, FirstDate>>}

\* The constructor calls with regressors that begin and end around the
\* target.
RegressorCalls ==
    {[df |-> InputDf(MaxLen, shape, FALSE),
      df_exog |-> Some(InputRegressors(FirstDate + MaxLen - 1, window)),
      known_future |-> future, shape |-> shape, window |-> window, label |-> ""] :
         shape \in {"full", "ragged", "late", "void"},
         window \in [Range(Segments) -> WindowChoices(FirstDate + MaxLen - 1)],
         future \in KnownFutureChoices}

\* The constructor calls with a column pair given twice.
DuplicateCalls ==
    {[df |-> InputDuplicated(MaxLen, label), df_exog |-> exog,
      known_future |-> KnownFutureAll, shape |-> "full",
      window |-> [s \in Range(Segments) |-> <<FirstDate - 1, FirstDate + MaxLen>>],
      label |-> label] :
         label \in {Segments[2], OtherLabel},
         exog \in {None, Some(InputExog(FirstDate + MaxLen, FALSE))}}

\* TSDataset(df, freq, df_exog, known_future) builds another dataset, or
\* raises.
Construct(calls) ==
    /\ ret = Idle
    /\ \E call \in calls :
        \E out \in {TSDataset(call.df, call.df_exog, call.known_future)} :
            /\ ret' = [op |-> "TSDataset", args |-> call, status |-> out.status,
                       segment |-> out.segment, warnings |-> {}, borders |-> << >>,
                       result |-> out.ts]
            /\ UNCHANGED fields

\* What add_target_components returned for the table components, given by
\* a caller whose dataset was before.
Added(kind, components, out) ==
    [op |-> "add_target_components",
     args |-> [kind |-> kind, components |-> components, before |-> Self],
     status |-> out.status, warnings |-> {}, borders |-> << >>, result |-> << >>]

AddTargetComponents ==
    /\ ret = Idle
    /\ \E kind \in {"good", "badsum", "uneven"} :
        \E components \in {InputComponents(Self, kind)} :
            \E out \in {add_target_components(Self, components)} :
                /\ Becomes(out.ts)
                /\ ret' = Added(kind, components, out)

\* The caller keeps what get_target_components gave before the drop.
DropTargetComponents ==
    /\ ret = Idle
    /\ Becomes(drop_target_components(Self))
    /\ ret' = [op |-> "drop_target_components",
               args |-> [components |-> get_target_components(Self), before |-> Self],
               status |-> "ok", warnings |-> {}, borders |-> << >>, result |-> << >>]

\* The caller gives the components it kept back to the dataset it dropped
\* them from.
AddTargetComponentsBack ==
    /\ ret.op = "drop_target_components"
    /\ ~IsNone(ret.args.components)
    /\ \E out \in {add_target_components(Self, Get(ret.args.components))} :
        /\ Becomes(out.ts)
        /\ ret' = [op |-> "add_target_components",
                   args |-> [kind |-> "same", components |-> Get(ret.args.components),
                             before |-> Self, dropped_from |-> ret.args.before],
                   status |-> out.status, warnings |-> {}, borders |-> << >>,
                   result |-> << >>]

\* The calls of add_columns_from_pandas: a feature that is a regressor and
\* goes to df_exog too, a plain feature, and a quantile of the target.
PlainColumn == [feature |-> "feat", update_exog |-> FALSE, regressors |-> None]
ColumnChoices ==
    {[feature |-> "feat", update_exog |-> TRUE, regressors |-> Some({"feat"})],
     PlainColumn,
     [feature |-> "target_0.5", update_exog |-> FALSE, regressors |-> None]}

\* The table given to update_columns_from_pandas: other values for one
\* feature, from the second timestamp of the working table to one step
\* after its last.
InputReplacement(self, feature) ==
    LET columns == [i \in 1..Len(Segments) |-> <<Segments[i], feature>>]
        V(c, ts) == CellVal(c, ts) + 50
    IN  MkTable(DateRange(SetMin(IndexSet(self.df)) + 1, SetMax(IndexSet(self.df)) + 1),
                columns, V)

\* What a call that changes columns returned, the table it was given and
\* the dataset it was made on.
Changed(op, df_update, status, warnings) ==
    [op |-> op, args |-> [df_update |-> df_update, before |-> Self],
     status |-> status, warnings |-> warnings, borders |-> << >>, result |-> << >>]

\* The calls that add the feature feat.
FeatureColumns == {c \in ColumnChoices : c.feature = "feat"}

\* The caller adds columns that the tables do not hold yet.
AddColumnsFromPandas(choices) ==
    /\ ret = Idle
    /\ \E call \in choices :
        /\ call.feature \notin FeaturesOf(df)
        /\ call.update_exog /\ ~IsNone(df_exog) => call.feature \notin FeaturesOf(Get(df_exog))
        /\ \E df_update \in {InputUpdate(Self, call.feature)} :
            /\ Becomes(add_columns_from_pandas(Self, df_update, call.update_exog,
                                               call.regressors))
            /\ ret' = Changed("add_columns_from_pandas", df_update, "ok", {})

MakeFuture ==
    /\ ret = Idle
    /\ \E future_steps \in 1..MaxFuture, tail_steps \in 0..MaxTail :
        \E out \in {make_future(Self, future_steps, tail_steps)} :
            /\ ret' = Returned("make_future",
                               [future_steps |-> future_steps, tail_steps |-> tail_steps],
                               out, << >>)
            /\ UNCHANGED fields

\* Borders around the index: one step before its first timestamp to one
\* step after its last, or not given.
BorderChoices == {None} \cup {Some(ts) : ts \in (FirstDate - 1)..(FirstDate + MaxLen)}
SizeChoices == {None} \cup {Some(n) : n \in 1..MaxTestSize}

TrainTestSplit ==
    /\ ret = Idle
    /\ \E train_start \in BorderChoices, train_end \in BorderChoices,
       test_start \in BorderChoices, test_end \in BorderChoices,
       test_size \in SizeChoices :
        \E out \in {train_test_split(Self, train_start, train_end, test_start,
                                     test_end, test_size)} :
            /\ ret' = Returned("train_test_split",
                               [train_start |-> train_start, train_end |-> train_end,
                                test_start |-> test_start, test_end |-> test_end,
                                test_size |-> test_size],
                               out, out.borders)
            /\ UNCHANGED fields

\* The sequences of transforms a caller gives.
TransformSequences == UNION {[1..n -> Transforms] : n \in 0..MaxTransforms}

\* The target holds the values the constructor was given.
Untransformed ==
    \A c \in ColumnSet(df) : \A ts \in IndexSet(df) :
        c[2] = "target" => Cell(df, c, ts) \in {NaN, CellVal(c, ts)}

\* What a call with transforms returned, the invocations it made and the
\* dataset it began with.
Applied(op, transforms, out) ==
    [op |-> op, args |-> [transforms |-> transforms, before |-> Self],
     status |-> out.status, warnings |-> out.warnings, borders |-> << >>,
     result |-> << >>, log |-> out.log]

Transform ==
    /\ ret = Idle
    /\ Untransformed
    /\ \E transforms \in TransformSequences :
        \E out \in {transform(Self, transforms)} :
            /\ Becomes(out.ts)
            /\ ret' = Applied("transform", transforms, out)

FitTransform ==
    /\ ret = Idle
    /\ Untransformed
    /\ \E transforms \in TransformSequences :
        \E out \in {fit_transform(Self, transforms)} :
            /\ Becomes(out.ts)
            /\ ret' = Applied("fit_transform", transforms, out)

InverseTransform ==
    /\ ret = Idle
    /\ Untransformed
    /\ \E transforms \in TransformSequences :
        \E out \in {inverse_transform(Self, transforms)} :
            /\ Becomes(out.ts)
            /\ ret' = Applied("inverse_transform", transforms, out)

\* The caller gives other values for columns the working table holds.
UpdateColumnsFromPandas ==
    /\ ret = Idle
    /\ \E feature \in {"target", "exo"} :
        /\ feature \in FeaturesOf(df)
        /\ \E df_update \in {InputReplacement(Self, feature)} :
            /\ Becomes(update_columns_from_pandas(Self, df_update))
            /\ ret' = Changed("update_columns_from_pandas", df_update, "ok", {})

\* The lists of features a caller drops.
FeatureChoices == {{"exo"}, {"reg"}, {"exo", "reg"}, {"feat"}, {"c1"}}

CallDropFeatures ==
    /\ ret = Idle
    /\ \E features \in FeatureChoices, drop_from_exog \in BOOLEAN :
        \E out \in {drop_features(Self, features, drop_from_exog)} :
            /\ Becomes(out.ts)
            /\ ret' = [op |-> "drop_features",
                       args |-> [features |-> features, drop_from_exog |-> drop_from_exog,
                                 before |-> Self],
                       status |-> out.status, warnings |-> out.warnings,
                       borders |-> << >>, result |-> << >>]

\* The caller extends the dataset it has just dropped features from.
MakeFutureAfterDrop ==
    /\ ret.op = "drop_features"
    /\ ret.status = "ok"
    /\ \E future_steps \in 1..MaxFuture :
        \E out \in {make_future(Self, future_steps, 0)} :
            /\ ret' = Returned("make_future",
                               [future_steps |-> future_steps, tail_steps |-> 0,
                                dropped |-> ret.args.features,
                                drop_from_exog |-> ret.args.drop_from_exog,
                                before |-> ret.args.before],
                               out, << >>)
            /\ UNCHANGED fields

\* The (timestamp, segment label) pairs of the rows of a long table.
LongPairs ==
    {<<ts, label>> : ts \in FirstDate..(FirstDate + MaxRows - 1),
                     label \in Range(Segments) \cup {OtherLabel}}

\* The long tables given to to_dataset: up to MaxRows rows with different
\* pairs, in ascending or descending order of the pairs, with the feature
\* columns in every order; one value of exo is missing.
LongTables ==
    LET Rank(p) == 3 * p[1] + (IF p[2] = OtherLabel THEN 3 ELSE SegmentRank(p[2]))
        Ordered(pairs, up) ==
            LET n == Cardinality(pairs)
                At(i) == CHOOSE p \in pairs :
                             Cardinality({q \in pairs : Rank(q) < Rank(p)})
                                 = (IF up THEN i - 1 ELSE n - i)
            IN  [i \in 1..n |-> At(i)]
        Val(f, p) == IF f = "exo" /\ p = <<FirstDate, Segments[1]>> THEN NaN
                     ELSE CellVal(<<astype_str(p[2]), f>>, p[1])
        Row(columns, p) == [timestamp |-> p[1], segment |-> p[2],
                            cells |-> [f \in Range(columns) |-> Val(f, p)]]
    IN  {[columns |-> columns,
          rows |-> [i \in 1..Cardinality(pairs) |-> Row(columns, Ordered(pairs, up)[i])]] :
            columns \in {<<"target">>, <<"exo", "target">>, <<"target", "exo">>},
            up \in BOOLEAN,
            pairs \in {P \in SUBSET LongPairs : Cardinality(P) \in 1..MaxRows}}

\* The caller gives a long table to to_dataset: one of its own, or the one
\* to_flatten has just returned.
ToDataset ==
    /\ ret = Idle \/ (ret.op = "to_flatten" /\ ret.status = "ok")
    /\ \E long_df \in (IF ret = Idle THEN LongTables ELSE {ret.result}) :
        \E out \in {to_dataset(long_df)} :
            /\ ret' = [op |-> "to_dataset",
                       args |-> [df |-> long_df,
                                 flattened |-> IF ret = Idle THEN None
                                               ELSE Some(ret.args.df)],
                       status |-> out.status, warnings |-> {}, borders |-> << >>,
                       result |-> out.df]
            /\ UNCHANGED fields

\* The caller gives the wide table to_dataset has just returned to
\* to_flatten.
ToFlatten ==
    /\ ret.op = "to_dataset"
    /\ ret.status = "ok"
    /\ IsNone(ret.args.flattened)
    /\ ret' = [op |-> "to_flatten", args |-> [df |-> Get(ret.result)],
               status |-> "ok", warnings |-> {}, borders |-> << >>,
               result |-> to_flatten(Get(ret.result))]
    /\ UNCHANGED fields

\* The state after a successful TSDataset(input, freq, exog, future, h).
ConstructedOfLevel(input, exog, future, h) ==
    \E made \in {TSDatasetOfLevel(input, exog, future, h)} :
        /\ made.status = "ok"
        /\ df = Get(made.ts).df
        /\ raw_df = Get(made.ts).raw_df
        /\ df_exog = Get(made.ts).df_exog
        /\ known_future = Get(made.ts).known_future
        /\ regressors = Get(made.ts).regressors
        /\ target_components_names = Get(made.ts).target_components_names
        /\ hierarchical_structure = h
        /\ current_df_level = made.current_df_level
        /\ ret = Idle

\* The exogenous table given to the constructor at the level of the
\* segments level_segments: features exo and reg from one step before
\* FirstDate to last.
InputLevelExog(level_segments, last) ==
    LET columns == [i \in 1..(2 * Len(level_segments)) |->
                       <<level_segments[(i + 1) \div 2],
                         IF i % 2 = 1 THEN "exo" ELSE "reg">>]
    IN  MkTable(DateRange(FirstDate - 1, last), columns, CellVal)

\* What get_level_dataset(target_level) returned, the dataset it was called
\* on and the level of that dataset.
LevelReturned(self, level, target_level, out) ==
    [op |-> "get_level_dataset",
     args |-> [target_level |-> target_level, self |-> self, level |-> level],
     status |-> out.status, warnings |-> {}, borders |-> << >>,
     result |-> out.ts, level |-> out.current_df_level]

GetLevelDataset ==
    /\ ret = Idle
    /\ \E target_level \in Range(Hierarchy.level_names) :
        \E out \in {get_level_dataset(Self, hierarchical_structure, current_df_level,
                                      target_level)} :
            /\ ret' = LevelReturned(Self, current_df_level, target_level, out)
            /\ UNCHANGED fields

\* The caller asks the dataset get_level_dataset returned for a level.
GetLevelDatasetOfResult ==
    /\ ret.op = "get_level_dataset"
    /\ ret.status = "ok"
    /\ ret.args.self = Self
    /\ \E target_level \in Range(Hierarchy.level_names) :
        \E out \in {get_level_dataset(Get(ret.result), hierarchical_structure, ret.level,
                                      target_level)} :
            /\ ret' = LevelReturned(Get(ret.result), ret.level, target_level, out)
            /\ UNCHANGED fields

\* tsdataset_idx_slice(start_idx, end_idx): the rows at the positions
\* start_idx .. end_idx - 1 of the working table, counted from 0, as a
\* dataset of its own with the lists and df_exog of self.
tsdataset_idx_slice(self, start_idx, end_idx) ==
    LET len == Len(self.df.index)
        first == IF IsNone(start_idx) THEN 1 ELSE Get(start_idx) + 1
        last == IF IsNone(end_idx) THEN len ELSE Get(end_idx)
        df_slice == Reindex(self.df, SubSeq(self.df.index, first, last))
        made == TSDataset(df_slice, None, KnownFutureNames({}))
    IN  IF made.status # "ok" THEN [status |-> made.status, warnings |-> {}, result |-> << >>]
        ELSE [status |-> "ok", warnings |-> {},
              result |-> << [Get(made.ts) EXCEPT
                               !.known_future = self.known_future,
                               !.regressors = self.regressors,
                               !.df_exog = self.df_exog,
                               !.target_components_names = self.target_components_names] >>]

\* The object a field of the dataset self holds.
ObjectOf(field) == [field |-> field, owner |-> 0]
\* A derived dataset that holds the very object it was given.
SameObject(object, owner) == object
\* A derived dataset that copies the lists and holds the tables it was
\* given.
SharedTables(object, owner) ==
    IF object.field \in {"df", "df_exog"} THEN object ELSE [object EXCEPT !.owner = owner]
\* copy(deep=True), deepcopy: another object with the same value, held by
\* the dataset owner alone.
copy_deep(object, owner) == [object EXCEPT !.owner = owner]

\* The objects the fields of the i-th dataset that op returned hold: the
\* constructor copies df and df_exog, the lists are copied after it; the
\* raw_df of a part of a split is a slice of the raw_df of self.
DerivedObjects(op, i) ==
    [df |-> copy_deep(ObjectOf("df"), i),
     df_exog |-> copy_deep(ObjectOf("df_exog"), i),
     regressors |-> copy_deep(ObjectOf("regressors"), i),
     target_components_names |-> copy_deep(ObjectOf("target_components_names"), i),
     raw_df |-> IF op = "train_test_split" THEN ObjectOf("raw_df")
                ELSE copy_deep(ObjectOf("raw_df"), i)]

\* The fields a method changes within the object they hold; the other
\* fields it changes are bound to a new object.
InPlace(method) ==
    IF method = "update_columns_from_pandas" THEN {"df"}
    ELSE IF method = "drop_features" THEN {"df", "df_exog"}
    ELSE IF method = "drop_target_components" THEN {"df"}
    ELSE {}

\* The calls a caller makes on a derived dataset.
Methods ==
    {"add_columns_from_pandas", "update_columns_from_pandas", "drop_features",
     "add_target_components", "drop_target_components"}

\* method called on the dataset ts with the tables the model gives it.
CallOn(method, ts) ==
    IF method = "add_columns_from_pandas"
    THEN [status |-> IF "feat" \in FeaturesOf(ts.df) THEN "skipped" ELSE "ok",
          ts |-> add_columns_from_pandas(ts, InputUpdate(ts, "feat"), TRUE, Some({"feat"}))]
    ELSE IF method = "update_columns_from_pandas"
    THEN [status |-> "ok", ts |-> update_columns_from_pandas(ts, InputReplacement(ts, "target"))]
    ELSE IF method = "drop_features"
    THEN With(drop_features(ts, {"exo"}, TRUE), LAMBDA out :
              [status |-> out.status, ts |-> out.ts])
    ELSE IF method = "add_target_components"
    THEN With(add_target_components(ts, InputComponents(ts, "good")), LAMBDA out :
              [status |-> out.status, ts |-> out.ts])
    ELSE [status |-> "ok", ts |-> drop_target_components(ts)]

\* The dataset holder after a call has changed the dataset changed to
\* after: the fields changed in place whose objects holder shares with it
\* follow.
SeenThrough(holder, objects, changed_objects, method, after) ==
    [f \in DOMAIN holder |->
        IF f \in InPlace(method) /\ objects[f] = changed_objects[f]
        THEN after[f] ELSE holder[f]]

\* The positions given to tsdataset_idx_slice.
IdxChoices == {None, Some(1), Some(MaxLen - 1)}

TsdatasetIdxSlice ==
    /\ ret = Idle
    /\ \E start_idx \in IdxChoices, end_idx \in IdxChoices :
        /\ IF IsNone(start_idx) \/ IsNone(end_idx) THEN TRUE
           ELSE Get(start_idx) < Get(end_idx)
        /\ \E out \in {tsdataset_idx_slice(Self, start_idx, end_idx)} :
            /\ ret' = Returned("tsdataset_idx_slice",
                               [start_idx |-> start_idx, end_idx |-> end_idx], out, << >>)
            /\ UNCHANGED fields

\* train_test_split(test_size=test_size)
TrainTestSplitBySize ==
    /\ ret = Idle
    /\ \E test_size \in 1..MaxTestSize :
        \E out \in {train_test_split(Self, None, None, None, None, Some(test_size))} :
            /\ ret' = Returned("train_test_split",
                               [train_start |-> None, train_end |-> None,
                                test_start |-> None, test_end |-> None,
                                test_size |-> Some(test_size)],
                               out, out.borders)
            /\ UNCHANGED fields

\* The calls that return datasets derived from self.
Derivations == {"make_future", "train_test_split", "tsdataset_idx_slice", "get_level_dataset"}

\* The caller calls a method on one of the datasets the last call derived
\* from self; self and the other derived datasets show the change where
\* they hold the object that was changed.
CallOnDerived ==
    /\ ret.op \in Derivations
    /\ ret.status = "ok"
    /\ \E i \in DOMAIN ret.result, method \in Methods :
        /\ SegmentsOf(ret.result[i].df) = Range(Segments)
        /\ \E out \in {CallOn(method, ret.result[i])} :
            /\ out.status = "ok"
            /\ Becomes(SeenThrough(Self, [f \in DOMAIN Self |-> ObjectOf(f)],
                                   DerivedObjects(ret.op, i), method, out.ts))
            /\ ret' = [op |-> method,
                       args |-> [derived_by |-> ret.op, which |-> i, before |-> Self,
                                 derived |-> ret.result],
                       status |-> "ok", warnings |-> {}, borders |-> << >>,
                       result |-> [j \in DOMAIN ret.result |->
                                     IF j = i THEN out.ts
                                     ELSE SeenThrough(ret.result[j],
                                                      DerivedObjects(ret.op, j),
                                                      DerivedObjects(ret.op, i),
                                                      method, out.ts)]]

\* The caller has looked at what the call returned.
Proceed ==
    /\ ret # Idle
    /\ ret' = Idle
    /\ UNCHANGED fields

\* ---------------------------------------------------------- specifications
\* Datasets of every constructed shape, their columns and components
\* changed, extended into the future.
Init ==
    \E shape \in {"full", "gap", "ragged"}, with_quantile \in BOOLEAN,
       future \in KnownFutureChoices, exog \in ExogChoices(MaxLen) :
        Constructed(InputDf(MaxLen, shape, with_quantile), exog, future)

Next ==
    \/ AddTargetComponents
    \/ DropTargetComponents
    \/ AddColumnsFromPandas(ColumnChoices)
    \/ MakeFuture
    \/ Proceed

Spec == Init /\ [][Next]_vars

\* A dataset with or without exogenous data, columns and components added,
\* split at every combination of borders.
InitSplit ==
    \E exog \in {None, Some(InputExog(FirstDate + MaxLen, FALSE))} :
        Constructed(InputDf(MaxLen, "full", FALSE), exog, KnownFutureAll)

NextSplit ==
    \/ AddTargetComponents
    \/ AddColumnsFromPandas({PlainColumn})
    \/ TrainTestSplit
    \/ Proceed

SpecSplit == InitSplit /\ [][NextSplit]_vars

\* A dataset at hand, and others constructed from tables of every shape.
InitConstruct == Constructed(InputDf(MaxLen, "full", FALSE), None, KnownFutureNames({}))

NextConstruct ==
    \/ Construct(RegressorCalls \cup DuplicateCalls)
    \/ Proceed

SpecConstruct == InitConstruct /\ [][NextConstruct]_vars

\* A dataset with or without target components, given to sequences of
\* transforms and of their inverses.
InitTransform ==
    \E shape \in {"full", "ragged"} :
        Constructed(InputDf(MaxLen, shape, FALSE), None, KnownFutureNames({}))

NextTransform ==
    \/ AddTargetComponents
    \/ Transform
    \/ FitTransform
    \/ InverseTransform
    \/ Proceed

SpecTransform == InitTransform /\ [][NextTransform]_vars

\* Datasets of every constructed shape, their target components added,
\* rescaled with the target or not, dropped and given back.
InitComponents ==
    \E shape \in {"full", "gap", "ragged", "late"}, with_quantile \in BOOLEAN,
       exog \in {None, Some(InputExog(FirstDate + MaxLen, FALSE))} :
        Constructed(InputDf(MaxLen, shape, with_quantile), exog, KnownFutureAll)

NextComponents ==
    \/ AddTargetComponents
    \/ DropTargetComponents
    \/ AddTargetComponentsBack
    \/ Transform
    \/ InverseTransform
    \/ Proceed

SpecComponents == InitComponents /\ [][NextComponents]_vars

\* Datasets with and without exogenous data, their columns added,
\* replaced and dropped, extended into the future.
InitFeatures ==
    \E future \in {KnownFutureAll, KnownFutureNames({"reg"})},
       exog \in {None, Some(InputExog(FirstDate + MaxLen - 1 + MaxFuture, FALSE))} :
        Constructed(InputDf(MaxLen, "full", FALSE), exog, future)

NextFeatures ==
    \/ AddTargetComponents
    \/ AddColumnsFromPandas(FeatureColumns)
    \/ UpdateColumnsFromPandas
    \/ CallDropFeatures
    \/ MakeFutureAfterDrop
    \/ Proceed

SpecFeatures == InitFeatures /\ [][NextFeatures]_vars

\* Long tables pivoted to wide tables, flattened and pivoted again.
InitFlatten == Constructed(InputDf(MaxLen, "full", FALSE), None, KnownFutureNames({}))

NextFlatten ==
    \/ ToDataset
    \/ ToFlatten
    \/ Proceed

SpecFlatten == InitFlatten /\ [][NextFlatten]_vars

\* Datasets with and without a hierarchical structure, and the datasets
\* of their levels.
InitLevels ==
    \E shape \in {"full", "ragged"}, with_quantile \in BOOLEAN,
       h \in {None, Some(Hierarchy)} :
        \E exog \in {None, Some(InputExog(FirstDate + MaxLen - 1 + MaxFuture, FALSE))}
                    \cup (IF IsNone(h) THEN {}
                          ELSE {Some(InputLevelExog(<<"total">>,
                                                    FirstDate + MaxLen - 1 + MaxFuture))}) :
            ConstructedOfLevel(InputDf(MaxLen, shape, with_quantile), exog,
                               KnownFutureAll, h)

NextLevels ==
    \/ AddTargetComponents
    \/ AddColumnsFromPandas(FeatureColumns)
    \/ GetLevelDataset
    \/ GetLevelDatasetOfResult
    \/ Proceed

SpecLevels == InitLevels /\ [][NextLevels]_vars

\* A dataset, the datasets derived from it, and calls on those.
InitDerive ==
    \E with_components \in BOOLEAN, with_quantile \in BOOLEAN :
        \E made \in {TSDatasetOfLevel(InputDf(MaxLen, "full", with_quantile),
                                      Some(InputExog(FirstDate + MaxLen - 1 + MaxFuture, FALSE)),
                                      KnownFutureAll, Some(Hierarchy))} :
            \E ts \in {IF with_components
                       THEN add_target_components(Get(made.ts),
                                                  InputComponents(Get(made.ts), "good")).ts
                       ELSE Get(made.ts)} :
                /\ df = ts.df
                /\ raw_df = ts.raw_df
                /\ df_exog = ts.df_exog
                /\ known_future = ts.known_future
                /\ regressors = ts.regressors
                /\ target_components_names = ts.target_components_names
                /\ hierarchical_structure = Some(Hierarchy)
                /\ current_df_level = made.current_df_level
                /\ ret = Idle

NextDerive ==
    \/ MakeFuture
    \/ TrainTestSplitBySize
    \/ TsdatasetIdxSlice
    \/ GetLevelDataset
    \/ CallOnDerived
    \/ Proceed

SpecDerive == InitDerive /\ [][NextDerive]_vars

\* ------------------------------------------------------ claims: make_future
Future == ret.result[1]
LastDate == SetMax(IndexSet(df))
FirstIndexDate == SetMin(IndexSet(df))
FutureCalled == ret.op = "make_future"

\* C1: for every dataset and every future_steps = k >= 1, make_future(k)
\* with tail_steps = 0 returns a dataset of exactly k rows whose timestamps
\* are the k consecutive steps right after the dataset's last timestamp.
C1_FutureRows ==
    FutureCalled /\ ret.args.tail_steps = 0 =>
        /\ ret.status = "ok"
        /\ Future.df.index = [i \in 1..ret.args.future_steps |-> LastDate + i]

\* A regressor of segment s has no value at one of the future dates.
MissingRegressorValue(s) ==
    \E f \in regressors \cap FeaturesOf(Get(df_exog)) :
        \E i \in 1..ret.args.future_steps :
            Cell(Get(df_exog), <<s, f>>, LastDate + i) = NaN

\* C2: with an exogenous table, make_future returns rows where every
\* exogenous feature of every segment has the value of df_exog at that
\* future timestamp, NaN where df_exog has none; a missing future regressor
\* value gives a warning for its segment and never a failure.
C2_FutureExog ==
    FutureCalled /\ ~IsNone(df_exog) =>
        /\ ret.status = "ok"
        /\ ColumnSet(Get(df_exog)) \subseteq ColumnSet(Future.df)
        /\ \A c \in ColumnSet(Get(df_exog)) : \A ts \in IndexSet(Future.df) :
               ts > LastDate => Cell(Future.df, c, ts) = Cell(Get(df_exog), c, ts)
        /\ \A s \in Range(Segments) :
               MissingRegressorValue(s) =>
                   <<"Some regressors don't have enough values", s>> \in ret.warnings

\* C3: make_future returns a dataset without target component columns and
\* without target quantile columns, and with no target component names,
\* also when components were attached with add_target_components or the
\* working table holds quantile columns.
C3_FutureNoComponents ==
    FutureCalled =>
        /\ ret.status = "ok"
        /\ FeaturesOf(Future.df) \cap Range(target_components_names) = {}
        /\ match_target_quantiles(FeaturesOf(Future.df)) = {}
        /\ Future.target_components_names = << >>

\* ------------------------------------------------- claims: train_test_split
SplitCalled == ret.op = "train_test_split"
SplitReturned == SplitCalled /\ ret.status = "ok"
Train == ret.result[1]
Test == ret.result[2]
Dates(ts) == IndexSet(ts.df)
\* The dataset's timestamps in [lo, hi].
Between(lo, hi) == {ts \in IndexSet(df) : lo <= ts /\ ts <= hi}
\* No step of the frequency is missing between two timestamps of S.
Contiguous(S) == \A a \in S : \A b \in S : \A x \in a..b : x \in S
\* A table's cells are those of the working table at the dates given.
Restricted(t, dates) ==
    /\ IndexSet(t) = dates
    /\ ColumnSet(t) = ColumnSet(df)
    /\ \A c \in ColumnSet(df) : \A ts \in dates : Cell(t, c, ts) = Cell(df, c, ts)

\* train_end = T and test_start = the step after T.
AdjacentCall ==
    /\ SplitCalled
    /\ ~IsNone(ret.args.train_end) /\ ~IsNone(ret.args.test_start)
    /\ Get(ret.args.test_start) = Get(ret.args.train_end) + 1

\* C4 as stated: a split at train_end = T, test_start = T + 1 returns train
\* and test with disjoint, contiguous timestamp ranges whose union is exactly
\* the dataset's timestamps in [train_start, test_end].
C4_AdjacentSplitExact ==
    AdjacentCall /\ IsNone(ret.args.test_size) =>
        /\ ret.status = "ok"
        /\ Dates(Train) \cap Dates(Test) = {}
        /\ Contiguous(Dates(Train)) /\ Contiguous(Dates(Test))
        /\ Dates(Train) \cup Dates(Test) = Between(ret.borders[1], ret.borders[4])

\* C4: a split at train_end = T, test_start = T + 1 without test_size always
\* returns; whenever such a split returns, train and test have disjoint,
\* contiguous timestamp ranges, train is the dataset's timestamps in
\* [train_start, T] and test those in [T + 1, test_end]; their union is
\* exactly the dataset's timestamps in [train_start, test_end] whenever
\* train_start <= T + 1 and test_end >= T.
C4_AdjacentSplit ==
    AdjacentCall =>
        /\ IsNone(ret.args.test_size) => ret.status = "ok"
        /\ ret.status = "ok" =>
            /\ Dates(Train) \cap Dates(Test) = {}
            /\ Contiguous(Dates(Train)) /\ Contiguous(Dates(Test))
            /\ Dates(Train) = Between(ret.borders[1], Get(ret.args.train_end))
            /\ Dates(Test) = Between(Get(ret.args.test_start), ret.borders[4])
            /\ (ret.borders[1] <= ret.borders[3] /\ ret.borders[4] >= ret.borders[2]
                  => Dates(Train) \cup Dates(Test)
                       = Between(ret.borders[1], ret.borders[4]))

C4_Witness ==
    /\ AdjacentCall /\ ret.status = "ok"
    /\ ~IsNone(ret.args.train_start) /\ ~IsNone(ret.args.test_end)
    /\ Cardinality(Dates(Train)) >= 2 /\ Cardinality(Dates(Test)) >= 2
    /\ Dates(Train) \cup Dates(Test) = Between(ret.borders[1], ret.borders[4])

\* C5: the train dataset's working table holds every column of the parent's
\* working table, also the added ones, restricted to [train_start,
\* train_end]; the test dataset's holds the same columns restricted to
\* [test_start, test_end]; the test dataset's raw table spans train_start
\* through test_end.
C5_SplitColumns ==
    SplitReturned =>
        /\ Restricted(Train.df, Between(ret.borders[1], ret.borders[2]))
        /\ Restricted(Test.df, Between(ret.borders[3], ret.borders[4]))
        /\ IndexSet(Test.raw_df)
             = {ts \in IndexSet(raw_df) : ret.borders[1] <= ts /\ ts <= ret.borders[4]}

\* C6: given test_start and test_size and no test_end, the test dataset
\* starts at test_start and holds exactly test_size timestamps.
C6_TestSizeFromStart ==
    /\ SplitReturned
    /\ ~IsNone(ret.args.test_start) /\ ~IsNone(ret.args.test_size)
    /\ IsNone(ret.args.test_end)
    => /\ Test.df.index # << >>
       /\ Test.df.index[1] = Get(ret.args.test_start)
       /\ Len(Test.df.index) = Get(ret.args.test_size)

\* Only test_size is given.
OnlyTestSize ==
    /\ SplitCalled /\ ~IsNone(ret.args.test_size)
    /\ IsNone(ret.args.train_start) /\ IsNone(ret.args.train_end)
    /\ IsNone(ret.args.test_start) /\ IsNone(ret.args.test_end)
    /\ Get(ret.args.test_size) < Len(df.index)
\* train_end and test_size are given, test_start and test_end are not.
TrainEndAndTestSize ==
    /\ SplitCalled /\ ~IsNone(ret.args.test_size) /\ ~IsNone(ret.args.train_end)
    /\ IsNone(ret.args.test_start) /\ IsNone(ret.args.test_end)
    /\ Get(ret.args.test_size) < Len(df.index)
\* The test_size timestamps that follow train_end.
Following == [i \in 1..Get(ret.args.test_size) |-> Get(ret.args.train_end) + i]
LastDates(n) == {ts \in IndexSet(df) : ts > LastDate - n}

\* C7 as stated: with test_size below the number of timestamps, only
\* test_size gives the last test_size timestamps as test and all earlier
\* ones as train; train_end, a timestamp of the dataset, and test_size give
\* the test_size timestamps following train_end as test.
C7_TestSizeExact ==
    /\ OnlyTestSize =>
         /\ ret.status = "ok"
         /\ Dates(Test) = LastDates(Get(ret.args.test_size))
         /\ Dates(Train) = IndexSet(df) \ Dates(Test)
    /\ TrainEndAndTestSize /\ Get(ret.args.train_end) \in IndexSet(df) =>
         /\ ret.status = "ok"
         /\ Test.df.index = Following

\* train_end is a timestamp of the dataset with test_size timestamps after it.
TrainEndFollowed ==
    /\ Get(ret.args.train_end) \in IndexSet(df)
    /\ Get(ret.args.train_end) + Get(ret.args.test_size) <= LastDate

\* C7: with test_size below the number of timestamps, only test_size gives
\* the last test_size timestamps as test and all earlier ones as train;
\* train_end and test_size give the test_size timestamps following
\* train_end as test when train_end is a timestamp of the dataset followed
\* by at least test_size timestamps, and fail with a KeyError or an
\* IndexError otherwise.
C7_TestSize ==
    /\ OnlyTestSize =>
         /\ ret.status = "ok"
         /\ Dates(Test) = LastDates(Get(ret.args.test_size))
         /\ Dates(Train) = IndexSet(df) \ Dates(Test)
    /\ TrainEndAndTestSize =>
         IF TrainEndFollowed
         THEN ret.status = "ok" /\ Test.df.index = Following
         ELSE ret.status \in {"KeyError", "IndexError"}

C7_Witness ==
    /\ TrainEndAndTestSize /\ TrainEndFollowed /\ ret.status = "ok"
    /\ Get(ret.args.test_size) >= 2
    /\ Test.df.index = Following

\* None of train_end, test_start, test_size is given.
NoBorders(args) ==
    IsNone(args.train_end) /\ IsNone(args.test_start) /\ IsNone(args.test_size)
\* The borders the two lookup stages of the resolver give, before its final
\* check.
Resolved(args) ==
    LET first == find_test_end(df.index, args.train_end, args.test_start,
                               args.test_end, args.test_size)
    IN  IF first.status # "ok" THEN first
        ELSE find_train_end_test_start(df.index, args.train_end, first.test_start,
                                       first.test_end_defined, args.test_size)
\* The resolved test_start precedes the resolved train_end.
Reversed(args) ==
    /\ ~NoBorders(args)
    /\ Resolved(args).status = "ok"
    /\ Resolved(args).test_start_defined < Resolved(args).train_end_defined

\* C8: a train_test_split call with none of train_end, test_start, test_size
\* given, or whose resolved test_start precedes its resolved train_end,
\* raises ValueError, returns no datasets and leaves df, raw_df, df_exog,
\* regressors and target_components_names unchanged.
C8_ConfigurationErrors ==
    [][ ret'.op = "train_test_split" /\ ret.op = ""
        /\ (NoBorders(ret'.args) \/ Reversed(ret'.args))
        => /\ ret'.status = "ValueError"
           /\ ret'.result = << >>
           /\ UNCHANGED fields ]_vars

C8_Witness ==
    /\ SplitCalled /\ ret.status = "ValueError" /\ ret.result = << >>
    /\ Reversed(ret.args)
    /\ IsNone(ret.args.train_end)
    /\ target_components_names # << >>

\* C9: whenever _find_all_borders returns four borders, for any combination
\* of given and omitted arguments, the returned test_start is at or after
\* the returned train_end.
C9_TestStartAfterTrainEnd ==
    SplitCalled /\ ret.borders # << >> => ret.borders[3] >= ret.borders[2]

C9_Witness ==
    /\ SplitCalled /\ ret.borders # << >>
    /\ IsNone(ret.args.train_end) /\ IsNone(ret.args.test_start)
    /\ ret.borders[3] > ret.borders[2]

\* A border of the call lies outside the dataset's timestamps.
Outside(border) ==
    ~IsNone(border) /\ (Get(border) < FirstIndexDate \/ Get(border) > LastDate)
OutOfRange(args) ==
    \/ ~IsNone(args.train_start) /\ Get(args.train_start) < FirstIndexDate
    \/ ~IsNone(args.train_end) /\ Get(args.train_end) > LastDate
    \/ ~IsNone(args.test_start) /\ Get(args.test_start) > LastDate
    \/ ~IsNone(args.test_end) /\ Get(args.test_end) > LastDate
\* The call has no other irregularity: a given test_start is not before a
\* given train_end, train_start is not after the last timestamp and the
\* other borders are not before the first.
OtherwiseInside(args) ==
    /\ IsNone(args.train_end) \/ IsNone(args.test_start)
         \/ Get(args.test_start) >= Get(args.train_end)
    /\ IsNone(args.train_start) \/ Get(args.train_start) <= LastDate
    /\ IsNone(args.train_end) \/ Get(args.train_end) >= FirstIndexDate
    /\ IsNone(args.test_start) \/ Get(args.test_start) >= FirstIndexDate
    /\ IsNone(args.test_end) \/ Get(args.test_end) >= FirstIndexDate
\* A border moved to the nearest timestamp of the dataset.
Clamp(border) ==
    IF IsNone(border) THEN border
    ELSE IF Get(border) < FirstIndexDate THEN Some(FirstIndexDate)
    ELSE IF Get(border) > LastDate THEN Some(LastDate)
    ELSE border
\* The same call with its borders moved into the dataset's range returns.
ClampedCallReturns(args) ==
    train_test_split(Self, Clamp(args.train_start), Clamp(args.train_end),
                     Clamp(args.test_start), Clamp(args.test_end),
                     args.test_size).status = "ok"
\* Train and test hold the dataset's timestamps within the resolved borders.
CoversAvailable ==
    /\ Dates(Train) = Between(ret.borders[1], ret.borders[2])
    /\ Dates(Test) = Between(ret.borders[3], ret.borders[4])

LookedUpOutside(args) ==
    \/ /\ ~IsNone(args.test_start) /\ Get(args.test_start) \notin IndexSet(df)
       /\ (IsNone(args.train_end) \/ (~IsNone(args.test_size) /\ IsNone(args.test_end)))
    \/ /\ ~IsNone(args.train_end) /\ Get(args.train_end) \notin IndexSet(df)
       /\ IsNone(args.test_start)
       /\ (IsNone(args.test_size) \/ IsNone(args.test_end))
    \/ /\ ~IsNone(args.test_end) /\ Get(args.test_end) \notin IndexSet(df)
       /\ ~IsNone(args.test_size) /\ IsNone(args.test_start)

ConstructCalled == ret.op = "TSDataset"
\* The features the call declares as known in the future.
CallRegressors ==
    IF IsNone(ret.args.df_exog) THEN {}
    ELSE IF ret.args.known_future.literal = "all"
    THEN FeaturesOf(Get(ret.args.df_exog))
    ELSE ret.args.known_future.names
\* The timestamps at which the target of segment s has a value, and those
\* at which one of its regressors has.
TargetDates(s) ==
    {ts \in IndexSet(ret.args.df) : Cell(ret.args.df, <<s, "target">>, ts) # NaN}
RegressorDates(s) ==
    {ts \in IndexSet(Get(ret.args.df_exog)) :
        \E f \in CallRegressors : Cell(Get(ret.args.df_exog), <<s, f>>, ts) # NaN}
Compared(s) ==
    ConstructCalled /\ CallRegressors # {} /\ TargetDates(s) # {} /\ RegressorDates(s) # {}
\* The regressors of segment s begin after its target.
Late(s) == Compared(s) /\ SetMin(RegressorDates(s)) > SetMin(TargetDates(s))
\* The regressors of segment s end before its target, or with it.
EndsBefore(s) == Compared(s) /\ SetMax(RegressorDates(s)) < SetMax(TargetDates(s))
EndsWith(s) == Compared(s) /\ SetMax(RegressorDates(s)) = SetMax(TargetDates(s))
\* The first segment, in the column order of the table given, that the
\* check rejects.
Rejected(s) == Late(s) \/ EndsBefore(s) \/ EndsWith(s)
FirstRejected ==
    LET columns == ret.args.df.columns
        first == SetMin({i \in DOMAIN columns : Rejected(astype_str(columns[i][1]))})
    IN  astype_str(columns[first][1])

\* C11 as stated: a construction where the regressors of some segment begin
\* after its target fails, produces no dataset and names a segment whose
\* regressors begin after its target.
C11_LateSegmentNamed ==
    ConstructCalled /\ (\E s \in Range(Segments) : Late(s)) =>
        /\ ret.status = "ValueError"
        /\ IsNone(ret.result)
        /\ Late(ret.segment)

\* C11: a construction where the regressors of some segment begin after its
\* target fails with a ValueError and produces no dataset; the error names
\* the first segment, in column order, whose regressors begin after its
\* target or do not end after it.
C11_LateRegressors ==
    ConstructCalled /\ (\E s \in Range(Segments) : Late(s)) =>
        /\ ret.status = "ValueError"
        /\ IsNone(ret.result)
        /\ ret.segment = FirstRejected

C11_Witness ==
    /\ ConstructCalled
    /\ Late(Segments[2]) /\ ~Rejected(Segments[1])
    /\ ret.status = "ValueError" /\ IsNone(ret.result)
    /\ ret.segment = Segments[2]

\* The target and the regressors of every segment have values to compare.
AllCompared == \A s \in Range(Segments) : Compared(s)

\* C12 as stated: the check accepts the call exactly when the regressors of
\* every segment begin no later than the first valid timestamp of its
\* target and end no earlier than the last; regressors that end at the
\* target's last valid timestamp are accepted.
C12_AcceptedWhenEndingWithTarget ==
    ConstructCalled /\ AllCompared =>
        (ret.status = "ok" <=> \A s \in Range(Segments) : ~Late(s) /\ ~EndsBefore(s))

\* C12: the check accepts the call exactly when, for every segment with a
\* valid target value and a valid regressor value, the regressors begin no
\* later than the first valid timestamp of the target and end strictly
\* later than its last valid timestamp; regressors that end at the target's
\* last valid timestamp are rejected, a segment without valid target or
\* without valid regressor values is accepted, and a rejection is a
\* ValueError.
C12_RegressorCheck ==
    ConstructCalled /\ CallRegressors # {} =>
        /\ ret.status = "ok" <=> \A s \in Range(Segments) : ~Rejected(s)
        /\ ret.status \in {"ok", "ValueError"}

C12_Witness ==
    /\ ConstructCalled
    /\ EndsWith(Segments[2]) /\ ~Late(Segments[2])
    /\ Compared(Segments[1]) /\ ~Rejected(Segments[1])
    /\ ret.status = "ValueError" /\ ret.segment = Segments[2]

\* Two columns of the table given carry the same (segment, feature) pair
\* once the segment labels are cast to str.
HasDuplicates ==
    LET columns == ret.args.df.columns
    IN  \E i \in DOMAIN columns : \E j \in DOMAIN columns :
            /\ i # j
            /\ astype_str(columns[i][1]) = astype_str(columns[j][1])
            /\ columns[i][2] = columns[j][2]

\* C13: constructing a dataset from a wide table in which two columns carry
\* the same (segment, feature) pair, also when the pairs coincide only
\* after the segment labels are cast to str, fails with a ValueError and
\* produces no dataset.
C13_DuplicatesRejected ==
    ConstructCalled /\ HasDuplicates =>
        ret.status = "ValueError" /\ IsNone(ret.result)

\* ------------------------------------------------------- claims: transforms
TransformsCalled == ret.op \in {"transform", "fit_transform", "inverse_transform"}
InverseCalled == ret.op = "inverse_transform"
Given == ret.args.transforms
Before == ret.args.before
\* The invocations of transforms the call made, in the order it made them.
Invocations ==
    LET OfTransform(e) == e.method # "_inverse_transform_target_components"
    IN  SelectSeq(ret.log, OfTransform)
\* The restorations of target components the call made.
Restorations ==
    LET OfDataset(e) == e.method = "_inverse_transform_target_components"
    IN  SelectSeq(ret.log, OfDataset)
\* The transform whose method is the i-th invocation the call is to make.
Due(i) == IF InverseCalled THEN Given[Len(Given) + 1 - i] ELSE Given[i]
\* The dataset as the i-th invocation left it.
LeftBy(i) == Invoke(ret.op, Invocations[i].transform, Invocations[i].self).ts

\* C14: transform and fit_transform invoke the forward method of the given
\* transforms t1..tn once each in the order t1..tn, inverse_transform the
\* inverse once each in the order tn..t1; every invocation is given the one
\* dataset the call is made on, as the invocation before it left it. An
\* invocation that raises is the last.
C14_InvocationOrder ==
    TransformsCalled =>
        /\ Len(Invocations) <= Len(Given)
        /\ ret.status = "ok" => Len(Invocations) = Len(Given)
        /\ \A i \in DOMAIN Invocations :
            /\ Invocations[i].method = ret.op
            /\ Invocations[i].transform = Due(i)
            /\ i > 1 => Invocations[i].self = LeftBy(i - 1)
        /\ Len(Invocations) > 0 =>
            /\ Invocations[1].self.df.index = Before.df.index
            /\ ~InverseCalled => Invocations[1].self = Before
            /\ ~InverseCalled => Self = LeftBy(Len(Invocations))

\* An inverse_transform of two different transforms has returned on a
\* dataset with target components.
C14_Witness ==
    /\ InverseCalled
    /\ ret.status = "ok"
    /\ Given = <<"halve", "flag">>
    /\ Len(Invocations) = 2
    /\ Len(Before.target_components_names) > 0

\* The call was an inverse_transform of a dataset with target components.
InverseWithComponents == InverseCalled /\ Len(Before.target_components_names) > 0
\* The columns of the names are in the working table and sum to the target
\* of their segment wherever it has a value.
SumToTarget(names) ==
    /\ Range(names) \subseteq FeaturesOf(df)
    /\ \A s \in Range(Segments) : \A ts \in IndexSet(df) :
           Cell(df, <<s, "target">>, ts) # NaN =>
               SumCells(df, {<<s, n>> : n \in Range(names)}, ts)
                   = Cell(df, <<s, "target">>, ts)

\* C15: inverse_transform of a dataset with target components gives every
\* inverse a dataset with no component names and no component columns, and
\* restores the components once, after the last inverse it invokes, however
\* many transforms there are; afterwards the names are those before the
\* call, the target is the one the inverses left, and the components sum
\* to it.
C15_ComponentsAroundInverses ==
    InverseWithComponents =>
        /\ \A i \in DOMAIN Invocations :
            /\ Invocations[i].self.target_components_names = << >>
            /\ FeaturesOf(Invocations[i].self.df)
                   \cap Range(Before.target_components_names) = {}
        /\ Len(Restorations) = 1
        /\ ret.log[Len(ret.log)] = Restorations[1]
        /\ to_pandas(Self, {"target"}) = to_pandas(Restorations[1].self, {"target"})
        /\ target_components_names = Before.target_components_names
        /\ SumToTarget(Before.target_components_names)

\* An inverse_transform of two transforms has rescaled the target of a
\* dataset with components twice.
C15_Witness ==
    /\ InverseWithComponents
    /\ ret.status = "ok"
    /\ Len(Invocations) = 2
    /\ \A ts \in IndexSet(df) :
           Cell(df, <<Segments[1], "target">>, ts)
               = 4 * Cell(Before.df, <<Segments[1], "target">>, ts)
    /\ \E ts \in IndexSet(df) :
           Cell(df, <<Segments[1], "c2">>, ts) # Cell(Before.df, <<Segments[1], "c2">>, ts)

\* The positions of the transforms whose inverse raises.
Raising == {i \in DOMAIN Given : Given[i] = "broken"}

\* C16: when the inverse of a transform raises in an inverse_transform of a
\* dataset with target components, the inverses of the transforms before it
\* in the given order are not invoked, the components are restored once,
\* after the inverse that raised, the caller gets the error of the inverse,
\* and the dataset ends with the component names it had, their columns in
\* the working table.
C16_RestoredAfterFailure ==
    InverseWithComponents /\ Raising # {} =>
        /\ ret.status = "RuntimeError"
        /\ Len(Invocations) = Len(Given) + 1 - SetMax(Raising)
        /\ Invocations[Len(Invocations)].transform = "broken"
        /\ Len(Restorations) = 1
        /\ ret.log[Len(ret.log)] = Restorations[1]
        /\ target_components_names = Before.target_components_names
        /\ Len(target_components_names) > 0
        /\ Range(target_components_names) \subseteq FeaturesOf(df)

\* The inverse of the second of three transforms has raised after the
\* inverse of the third rescaled the target of a dataset with components.
C16_Witness ==
    /\ InverseWithComponents
    /\ Given = <<"flag", "broken", "halve">>
    /\ ret.status = "RuntimeError"
    /\ Len(Invocations) = 2
    /\ \A ts \in IndexSet(df) :
           Cell(df, <<Segments[1], "target">>, ts)
               = 2 * Cell(Before.df, <<Segments[1], "target">>, ts)

\* ------------------------------------------------ claims: target components
AddCalled == ret.op = "add_target_components"
\* The component names of the table t are not the same in every segment.
NamesDiffer(t) ==
    \E a \in Range(Segments), b \in Range(Segments) :
        {c[2] : c \in {x \in ColumnSet(t) : x[1] = a}}
            # {c[2] : c \in {x \in ColumnSet(t) : x[1] = b}}
\* Somewhere the components of t do not sum to the target of self.
SumsDiffer(self, t) ==
    \E s \in Range(Segments) : \E ts \in IndexSet(self.df) :
        /\ Cell(self.df, <<s, "target">>, ts) # NaN
        /\ SumCells(t, {c \in ColumnSet(t) : c[1] = s}, ts)
               # Cell(self.df, <<s, "target">>, ts)

\* C17: add_target_components raises when the dataset has target
\* components already, when the given component names differ between
\* segments, and when the given components of a segment do not sum to its
\* target; when it raises, the working table and target_components_names
\* are those from before the call.
C17_AddFailures ==
    AddCalled =>
        /\ \/ Len(Before.target_components_names) > 0
           \/ NamesDiffer(ret.args.components)
           \/ SumsDiffer(Before, ret.args.components)
           => ret.status = "ValueError"
        /\ ret.status # "ok" =>
            /\ df = Before.df
            /\ target_components_names = Before.target_components_names

\* Components with the same names in every segment, which do not sum to
\* the target, were given to a dataset without components, and refused.
C17_Witness ==
    /\ AddCalled
    /\ ret.status = "ValueError"
    /\ Len(Before.target_components_names) = 0
    /\ ~NamesDiffer(ret.args.components)
    /\ SumsDiffer(Before, ret.args.components)
    /\ df = Before.df

\* The components the caller kept were given back after a drop.
GivenBack == AddCalled /\ ret.args.kind = "same"
\* The components of the dataset self sum to its target.
SummedToTarget(self) ==
    /\ Len(self.target_components_names) > 0
    /\ \A s \in Range(Segments) : \A ts \in IndexSet(self.df) :
           /\ Cell(self.df, <<s, "target">>, ts) # NaN
           /\ SumCells(self.df, {<<s, n>> : n \in Range(self.target_components_names)}, ts)
                  = Cell(self.df, <<s, "target">>, ts)

\* C18: for a dataset whose target components sum to the target,
\* drop_target_components followed by add_target_components with the
\* components it had leaves the working table (columns, their order, index,
\* values) and target_components_names as they were before the drop.
C18_DropThenAdd ==
    GivenBack /\ SummedToTarget(ret.args.dropped_from) =>
        /\ ret.status = "ok"
        /\ df = ret.args.dropped_from.df
        /\ target_components_names = ret.args.dropped_from.target_components_names

\* The components of a dataset with exogenous columns were dropped and
\* given back.
C18_Witness ==
    /\ GivenBack
    /\ SummedToTarget(ret.args.dropped_from)
    /\ Len(Before.target_components_names) = 0
    /\ ret.status = "ok"
    /\ "exo" \in FeaturesOf(df)
    /\ Range(target_components_names) = {"c1", "c2"}

\* ------------------------------------------------- claims: feature columns
\* make_future was called on a dataset right after drop_features returned.
FutureAfterDrop == FutureCalled /\ "dropped" \in DOMAIN ret.args
\* The dropped features were all features of the exogenous table.
DroppedFromExogenous ==
    /\ ~IsNone(ret.args.before.df_exog)
    /\ ret.args.dropped \subseteq FeaturesOf(Get(ret.args.before.df_exog))
\* The dropped features are in the returned dataset when they were dropped
\* from df only, and are not when they were dropped from df_exog too.
DroppedFeaturesFollowExog ==
    IF ret.args.drop_from_exog
    THEN ret.args.dropped \cap FeaturesOf(Future.df) = {}
    ELSE ret.args.dropped \subseteq FeaturesOf(Future.df)

\* C19: for features of the exogenous table, make_future after
\* drop_features(features, drop_from_exog=False) returns a dataset in which
\* the features appear again, and after drop_features(features,
\* drop_from_exog=True) a dataset in which they do not appear.
C19_FeaturesAfterDrop ==
    FutureAfterDrop /\ DroppedFromExogenous =>
        /\ ret.status = "ok"
        /\ DroppedFeaturesFollowExog

\* Whenever make_future returns a dataset after drop_features, the dropped
\* features of the exogenous table are in it exactly when df_exog kept them.
FeaturesAfterDropWhenReturned ==
    FutureAfterDrop /\ DroppedFromExogenous /\ ret.status = "ok" =>
        DroppedFeaturesFollowExog

\* make_future returns a dataset after drop_features whenever the dataset
\* has no target components.
FutureAfterDropReturns ==
    FutureAfterDrop /\ DroppedFromExogenous /\ Len(target_components_names) = 0 =>
        ret.status = "ok"

AddColumnsCalled == ret.op = "add_columns_from_pandas"
UpdateColumnsCalled == ret.op = "update_columns_from_pandas"
\* The last timestamp of the working table before the call.
LastDateBefore == SetMax(IndexSet(Before.df))
\* The given table has values after the last timestamp of the working table.
GivenLaterValues ==
    \E c \in ColumnSet(ret.args.df_update) : \E ts \in IndexSet(ret.args.df_update) :
        ts > LastDateBefore /\ Cell(ret.args.df_update, c, ts) # NaN

\* C20: after add_columns_from_pandas and after update_columns_from_pandas
\* the last timestamp of the working table is the one before the call: no
\* row of the given table after it has entered, and the columns of the
\* given table hold its values at the timestamps up to it;
\* update_columns_from_pandas also leaves df_exog, raw_df and the columns
\* of the working table as they were.
C20_LaterValuesDiscarded ==
    AddColumnsCalled \/ UpdateColumnsCalled =>
        /\ LastDate = LastDateBefore
        /\ \A ts \in IndexSet(ret.args.df_update) : ts > LastDateBefore => ts \notin IndexSet(df)
        /\ \A c \in ColumnSet(ret.args.df_update) : \A ts \in IndexSet(df) :
               /\ c \in ColumnSet(df)
               /\ Cell(df, c, ts) = Cell(ret.args.df_update, c, ts)
        /\ UpdateColumnsCalled =>
            /\ df_exog = Before.df_exog
            /\ raw_df = Before.raw_df
            /\ df.columns = Before.df.columns
            /\ df.index = Before.df.index

\* update_columns_from_pandas was given other values for an exogenous
\* feature, one of them after the last timestamp; the working table has
\* taken the others, and df_exog none.
C20_Witness ==
    /\ UpdateColumnsCalled
    /\ GivenLaterValues
    /\ FeaturesOf(ret.args.df_update) = {"exo"}
    /\ Cell(df, <<Segments[1], "exo">>, LastDate)
           # Cell(Before.df, <<Segments[1], "exo">>, LastDate)
    /\ Cell(Get(df_exog), <<Segments[1], "exo">>, LastDate)
           = Cell(Before.df, <<Segments[1], "exo">>, LastDate)

\* ------------------------------------------- claims: borders of the split
\* C29: whenever train_test_split returns, the train dataset and the test
\* dataset share no timestamp.
C29_DisjointSplit ==
    SplitReturned => Dates(Train) \cap Dates(Test) = {}

\* The 0-based position of the timestamp ts in the index of the dataset.
PositionOf(ts) == Get(get_loc(df.index, ts))
\* The end of the test set when test_size counts back from it.
CountedBackFrom(args) ==
    IF IsNone(args.test_end) THEN LastDate ELSE Get(args.test_end)
\* test_size counts back from the end of the test set to its start.
CountsBack(args) ==
    /\ ~IsNone(args.test_size) /\ IsNone(args.test_start)
    /\ ~IsNone(args.test_end) \/ IsNone(args.train_end)
    /\ CountedBackFrom(args) \in IndexSet(df)
\* The position the resolver computes from a size or a neighbour is not a
\* position of the index: test_size counted back from the end of the test
\* set passes the first timestamp, the train is to end before the first
\* timestamp, or test_size counted from test_start or train_end passes the
\* last timestamp.
PositionOutside(args) ==
    \/ /\ CountsBack(args)
       /\ PositionOf(CountedBackFrom(args)) - Get(args.test_size) + 1 < 0
    \/ /\ IsNone(args.train_end) /\ ~IsNone(args.test_start)
       /\ Get(args.test_start) = FirstIndexDate
    \/ /\ IsNone(args.test_end) /\ ~IsNone(args.test_size) /\ ~IsNone(args.test_start)
       /\ Get(args.test_start) \in IndexSet(df)
       /\ PositionOf(Get(args.test_start)) + Get(args.test_size) >= Len(df.index)
    \/ /\ IsNone(args.test_end) /\ ~IsNone(args.test_size) /\ IsNone(args.test_start)
       /\ ~IsNone(args.train_end) /\ Get(args.train_end) \in IndexSet(df)
       /\ PositionOf(Get(args.train_end)) + Get(args.test_size) >= Len(df.index)

\* C30: when a position the resolver derives from a size or a neighbour
\* falls outside 0 .. number of timestamps - 1, train_test_split raises
\* and returns no split.
C30_NoWrapAround ==
    SplitCalled /\ PositionOutside(ret.args) => ret.status # "ok"

\* Whenever a position past the last timestamp, or the position before the
\* first one, is derived, train_test_split raises.
NoSplitPastTheEnds ==
    /\ SplitCalled /\ PositionOutside(ret.args)
    /\ ~(/\ CountsBack(ret.args)
         /\ PositionOf(CountedBackFrom(ret.args)) - Get(ret.args.test_size) + 1 < 0)
    => ret.status # "ok"

\* -------------------------------------------- claims: invariants of a dataset
\* The feature names of the exogenous table, none when there is no table.
ExogFeatures == IF IsNone(df_exog) THEN {} ELSE FeaturesOf(Get(df_exog))

\* C28: in every reachable state known_future is a subset of the feature
\* names of the exogenous table and a subset of regressors.
C28_KnownFutureWithinExog ==
    /\ known_future \subseteq ExogFeatures
    /\ known_future \subseteq regressors

\* Until drop_features is called, known_future is within the features of
\* the exogenous table and within regressors.
KnownFutureUntilDrop ==
    [][ret'.op # "drop_features" /\ C28_KnownFutureWithinExog
           => C28_KnownFutureWithinExog']_vars

\* Every name of target_components_names is a column of the working table
\* of the dataset ts in every segment.
ComponentsHeld(ts) ==
    \A s \in Range(segments(ts)) : \A n \in Range(ts.target_components_names) :
        <<s, n>> \in ColumnSet(ts.df)

\* C27: in the dataset, and in the train and test datasets train_test_split
\* returns, every name of target_components_names is a column of the
\* working table in every segment.
C27_ComponentsHeld ==
    /\ ComponentsHeld(Self)
    /\ SplitReturned => ComponentsHeld(Train) /\ ComponentsHeld(Test)

\* The dataset the methods are called on holds its components.
ComponentsHeldBySelf == ComponentsHeld(Self)

\* The column pairs of the table t are in strictly ascending order of
\* (segment, feature): sorted, and no pair twice.
ColumnsInOrder(t) ==
    \A i \in DOMAIN t.columns : \A j \in DOMAIN t.columns :
        i < j => ColumnLess(t.columns[i], t.columns[j])

\* C26: the column pairs of the working table are unique and sorted by
\* (segment, feature), in the dataset the constructor returns and after
\* every later call.
C26_ColumnsUniqueSorted ==
    /\ ColumnsInOrder(df)
    /\ ConstructCalled /\ ret.status = "ok" => ColumnsInOrder(Get(ret.result).df)

\* The working table of a dataset constructed from unique column pairs
\* keeps them unique and sorted when columns and components that it does
\* not hold are added, replaced and dropped.
ColumnsInOrderAfterCalls == ColumnsInOrder(df)

\* Columns given to add_columns_from_pandas that the working table holds
\* already are in it once.
HeldColumnsAddedOnce ==
    "feat" \in FeaturesOf(df) =>
        ColumnsInOrder(add_columns_from_pandas(Self, InputUpdate(Self, "feat"),
                                               FALSE, None).df)

\* ------------------------------------------------ claims: long and wide
\* to_dataset was given the table to_flatten made of a wide table.
PivotedAgain == ret.op = "to_dataset" /\ ~IsNone(ret.args.flattened)

\* C23: for a long table with unique (timestamp, segment) rows,
\* to_dataset(to_flatten(to_dataset(long_df))) is to_dataset(long_df): the
\* same timestamps, the same sorted (segment, feature) columns, the same
\* values.
C23_FlattenRoundTrip ==
    PivotedAgain =>
        /\ ret.status = "ok"
        /\ Get(ret.result).index = Get(ret.args.flattened).index
        /\ Get(ret.result).columns = Get(ret.args.flattened).columns
        /\ ColumnsInOrder(Get(ret.result))
        /\ Get(ret.result).data = Get(ret.args.flattened).data

\* A wide table of two segments, two features and two timestamps, with
\* missing values, was flattened and pivoted again.
C23_Witness ==
    /\ PivotedAgain
    /\ ret.status = "ok"
    /\ Len(Get(ret.result).index) = 2
    /\ Len(Get(ret.result).columns) = 4
    /\ Len(ret.args.df.rows) = 4
    /\ \E c \in ColumnSet(Get(ret.result)) : \E ts \in IndexSet(Get(ret.result)) :
           Cell(Get(ret.result), c, ts) = NaN
    /\ \E c \in ColumnSet(Get(ret.result)) :
           Cell(Get(ret.result), c, FirstDate) # NaN

\* --------------------------------------------------- claims: levels
LevelCalled == ret.op = "get_level_dataset"
LevelReturns == LevelCalled /\ ret.status = "ok"
\* The dataset get_level_dataset was called on, and the one it returned.
LevelSelf == ret.args.self
LevelResult == Get(ret.result)
SameLevel == LevelCalled /\ ~IsNone(ret.args.level) /\ Get(ret.args.level) = ret.args.target_level

\* get_level_dataset returns whenever the dataset has a hierarchical
\* structure, the segments of its df_exog are those of one level and the
\* target level is not below its own.
LevelAlwaysReturns ==
    LevelCalled /\ ~IsNone(hierarchical_structure)
        /\ (IsNone(df_exog)
              \/ get_dataframe_level(hierarchical_structure, Get(df_exog)).status = "ok")
        /\ get_level_depth(Hierarchy, ret.args.target_level)
               <= get_level_depth(Hierarchy, Get(ret.args.level))
    => ret.status = "ok"

\* The depths of the level of the dataset get_level_dataset was called on
\* and of the target level.
LevelDepth == get_level_depth(Hierarchy, Get(ret.args.level))
TargetDepth == get_level_depth(Hierarchy, ret.args.target_level)
Hierarchical == LevelCalled /\ ~IsNone(hierarchical_structure) /\ ~IsNone(ret.args.level)

\* The features of a dataset that are the target, a quantile of it or a
\* component of it.
TargetsOf(self) ==
    {f \in FeaturesOf(self.df) :
        \/ f = "target"
        \/ f \in match_target_quantiles({f})
        \/ f \in Range(self.target_components_names)}

\* The columns of the target, its quantiles and its components are the same
\* in both datasets, values and order.
SameTargets(self, ts) ==
    /\ ts.df.index = self.df.index
    /\ to_pandas(ts, TargetsOf(self)) = to_pandas(self, TargetsOf(self))
    /\ ts.target_components_names = self.target_components_names

\* C21 as stated: get_level_dataset with the dataset's own level returns a
\* dataset whose df has the columns and the values of the original df.
C21_SameLevelUnchanged ==
    SameLevel /\ LevelReturns =>
        /\ LevelResult.df.index = LevelSelf.df.index
        /\ LevelResult.df.columns = LevelSelf.df.columns
        /\ LevelResult.df.data = LevelSelf.df.data

\* C21: get_level_dataset with the dataset's own level returns a dataset
\* of that level with the index of the original, with the same target,
\* quantile and component columns; every other column of its df is a column
\* of df_exog, merged anew.
C21_SameLevelTargets ==
    SameLevel /\ LevelReturns =>
        /\ ret.level = ret.args.level
        /\ SameTargets(LevelSelf, LevelResult)
        /\ ColumnsInOrder(LevelResult.df)
        /\ \A c \in ColumnSet(LevelResult.df) :
               c[2] \notin TargetsOf(LevelSelf) =>
                   /\ ~IsNone(df_exog)
                   /\ c \in ColumnSet(Get(df_exog))
                   /\ \A ts \in IndexSet(LevelResult.df) :
                          Cell(LevelResult.df, c, ts) = Cell(Get(df_exog), c, ts)

\* A dataset with a quantile, components and an added feature gave a
\* dataset of its own level, without the added feature.
C21_Witness ==
    /\ SameLevel
    /\ LevelReturns
    /\ {"feat", "target_0.5", "c1"} \subseteq FeaturesOf(LevelSelf.df)
    /\ {"target_0.5", "c1", "exo"} \subseteq FeaturesOf(LevelResult.df)
    /\ "feat" \notin FeaturesOf(LevelResult.df)

\* The segments of the lowest level that a segment is made of.
RECURSIVE PartsOf(_, _)
PartsOf(h, segment) ==
    IF ChildrenOf(h, segment) = << >> THEN {segment}
    ELSE UNION {PartsOf(h, m) : m \in Range(ChildrenOf(h, segment))}

\* The sum of a feature over the segments of the dataset self that are
\* part of the segment t, NaN when one of the values is missing.
SumOverParts(self, t, f, ts) ==
    LET parts == {<<s, f>> : s \in {x \in SegmentsOf(self.df) :
                                       PartsOf(Hierarchy, x) \subseteq PartsOf(Hierarchy, t)}}
    IN  IF \E c \in parts : Cell(self.df, c, ts) = NaN THEN NaN
        ELSE SumCells(self.df, parts, ts)

\* C22: get_level_dataset to a level above the dataset's returns a dataset
\* whose segments are exactly the segments of the target level; the target,
\* every quantile and every component of a segment is the sum over the
\* segments of the dataset mapped to it, and the components are held as
\* components; a target level below the dataset's fails with an error.
C22_CoarserLevelSums ==
    /\ Hierarchical /\ TargetDepth > LevelDepth => ret.status = "ValueError"
    /\ Hierarchical /\ TargetDepth < LevelDepth
           /\ (IsNone(df_exog)
                 \/ get_dataframe_level(hierarchical_structure, Get(df_exog)).status = "ok")
       => /\ ret.status = "ok"
          /\ ret.level = Some(ret.args.target_level)
          /\ segments(LevelResult) = get_level_segments(Hierarchy, ret.args.target_level)
          /\ LevelResult.df.index = LevelSelf.df.index
          /\ LevelResult.target_components_names = LevelSelf.target_components_names
          /\ ComponentsHeld(LevelResult)
          /\ FeaturesOf(LevelResult.df) \cap FeaturesOf(LevelSelf.df) = TargetsOf(LevelSelf)
          /\ \A t \in Range(segments(LevelResult)) : \A f \in TargetsOf(LevelSelf) :
                 \A ts \in IndexSet(LevelResult.df) :
                     Cell(LevelResult.df, <<t, f>>, ts) = SumOverParts(LevelSelf, t, f, ts)

\* A dataset of the lowest level with a quantile and components gave the
\* dataset of the level between, whose every segment is one of its two.
C22_Witness ==
    /\ LevelReturns
    /\ ret.args.level = Some("market")
    /\ ret.args.target_level = "region"
    /\ {"target_0.5", "c1", "c2"} \subseteq FeaturesOf(LevelResult.df)
    /\ SegmentsOf(LevelResult.df) = {"up1", "up2"}
    /\ Cell(LevelResult.df, <<"up2", "c2">>, FirstDate)
           = Cell(LevelSelf.df, <<"s2", "c2">>, FirstDate)

\* A dataset of the lowest level gave the dataset of the highest level,
\* and that one was asked for a level below its own.
C22_FinerRefused ==
    /\ LevelCalled
    /\ ret.args.level = Some("total")
    /\ ret.args.target_level = "market"
    /\ ret.status = "ValueError"
    /\ Cell(LevelSelf.df, <<"total", "target">>, FirstDate)
           = CellVal(<<"s1", "target">>, FirstDate) + CellVal(<<"s2", "target">>, FirstDate)

\* ------------------------------------------- claims: derived datasets
\* A method was called on a dataset derived from self.
CalledOnDerived == ret.op \in Methods /\ "derived_by" \in DOMAIN ret.args
\* The derived dataset the method was called on, before and after the call.
DerivedBefore == ret.args.derived[ret.args.which]
DerivedAfter == ret.result[ret.args.which]
\* A call on a part of a split or on a future dataset changed its df_exog.
ExogChangedThroughDerived ==
    /\ CalledOnDerived
    /\ ret.args.derived_by \in {"train_test_split", "make_future"}
    /\ DerivedAfter.df_exog # DerivedBefore.df_exog

\* C24 as stated: the df_exog of a dataset derived by train_test_split or
\* make_future is the object the parent holds, so a change made through
\* the derived dataset is seen through the parent and the other datasets
\* derived with it.
C24_ExogShared ==
    ExogChangedThroughDerived =>
        /\ df_exog = DerivedAfter.df_exog
        /\ \A j \in DOMAIN ret.result : ret.result[j].df_exog = DerivedAfter.df_exog

\* C24: the df_exog of a dataset derived by train_test_split or
\* make_future is a copy of the parent's, an object of its own: a change
\* made through the derived dataset is seen neither through the parent nor
\* through the other datasets derived with it.
C24_ExogCopied ==
    ExogChangedThroughDerived =>
        /\ DerivedObjects(ret.args.derived_by, ret.args.which).df_exog # ObjectOf("df_exog")
        /\ df_exog = ret.args.before.df_exog
        /\ df_exog # DerivedAfter.df_exog
        /\ \A j \in DOMAIN ret.result :
               j # ret.args.which => ret.result[j].df_exog = ret.args.derived[j].df_exog

\* drop_features(["exo"], drop_from_exog=True) on the train part of a
\* split: exo is gone from the df_exog of train, and still in those of the
\* parent and of test.
C24_Witness ==
    /\ ExogChangedThroughDerived
    /\ ret.op = "drop_features"
    /\ ret.args.derived_by = "train_test_split"
    /\ ret.args.which = 1
    /\ "exo" \notin FeaturesOf(Get(ret.result[1].df_exog))
    /\ "exo" \in FeaturesOf(Get(ret.result[2].df_exog))
    /\ "exo" \in FeaturesOf(Get(df_exog))

\* C25: make_future, train_test_split, tsdataset_idx_slice and
\* get_level_dataset leave df, raw_df, known_future, regressors and
\* target_components_names of the dataset they are called on unchanged, and
\* a later add_columns_from_pandas, update_columns_from_pandas,
\* drop_features, add_target_components or drop_target_components on a
\* derived dataset changes neither the df nor the regressors nor the
\* component names of that dataset.
C25_CopyOnDerive ==
    [][/\ ret'.op \in Derivations /\ ret' # ret =>
              UNCHANGED <<df, raw_df, known_future, regressors, target_components_names>>
       /\ ret'.op \in Methods /\ "derived_by" \in DOMAIN ret'.args =>
              UNCHANGED <<df, regressors, target_components_names>>]_vars

\* update_columns_from_pandas on a slice of a dataset: the target of the
\* slice has other values, the target of the dataset has those it had.
C25_Witness ==
    /\ CalledOnDerived
    /\ ret.op = "update_columns_from_pandas"
    /\ ret.args.derived_by = "tsdataset_idx_slice"
    /\ DerivedAfter.df # DerivedBefore.df
    /\ \E ts \in IndexSet(DerivedAfter.df) :
           /\ Cell(DerivedAfter.df, <<"s1", "target">>, ts)
                  # Cell(DerivedBefore.df, <<"s1", "target">>, ts)
           /\ Cell(df, <<"s1", "target">>, ts) = Cell(DerivedBefore.df, <<"s1", "target">>, ts)
    /\ df = ret.args.before.df

\* drop_target_components on the dataset get_level_dataset returned.
ComponentsDroppedFromLevel ==
    /\ CalledOnDerived
    /\ ret.op = "drop_target_components"
    /\ ret.args.derived_by = "get_level_dataset"
    /\ "c1" \in FeaturesOf(df)
    /\ "c1" \notin FeaturesOf(DerivedAfter.df)

====
